---- MODULE Spec2Model ----
(***************************************************************************)
(* Model of the indexing-and-serving core of StarSearch:                   *)
(*   - LocalNtfsSearcher (src/src/ntfs_search.rs): in-memory index,        *)
(*     search, cache load / save, one-time load sequence;                  *)
(*   - the named-pipe server (src/src/service.rs) and its client           *)
(*     (src/src/ipc.rs, src/src/cli.rs);                                   *)
(*   - the parallel per-drive Indexer (src/src/indexer.rs).                *)
(* Strings are sequences of character codes, so that upper-casing,         *)
(* substring search, byte length and byte order are computed, not assumed. *)
(***************************************************************************)
EXTENDS Integers, Sequences, FiniteSets, TLC

(***************************************************************************)
(* Bounds of the model.                                                    *)
(***************************************************************************)
\* longest index the search specification draws
MaxIndex == 3
\* largest small result limit a search is asked for
MaxLimit == 2
\* number of desktop processes that are started
NumInstances == 3
\* most entries one drive's scan returns
MaxScan == 2
\* most items the walk of one drive yields in scan_all
MaxItems == 4
\* the merge threshold of scan_all (5000 in the source), scaled down
BatchSize == 2
\* number of clients that connect to the server
NumClients == 2
\* GLOBAL_CONFIG.local_max_cache, the entry cap of one drive's scan (100000
\* in the source), scaled down
local_max_cache == 3
\* the number of values of usize (2^64 on the 64-bit target), scaled down
UsizeModulus == 64
\* code units in the directory path of the long entry (a Windows path
\* holds at most 32767)
LongPathUnits == 22000
\* length of a query that makes the encoded request longer than the
\* server's request buffer
LongQueryUnits == 4100

(***************************************************************************)
(* Strings.                                                                *)
(***************************************************************************)
\* code of one character (ASCII)
Code(c) ==
    CASE c = "a" -> 97 [] c = "b" -> 98 [] c = "c" -> 99 [] c = "d" -> 100
      [] c = "e" -> 101 [] c = "f" -> 102 [] c = "g" -> 103 [] c = "h" -> 104
      [] c = "i" -> 105 [] c = "j" -> 106 [] c = "k" -> 107 [] c = "l" -> 108
      [] c = "m" -> 109 [] c = "n" -> 110 [] c = "o" -> 111 [] c = "p" -> 112
      [] c = "q" -> 113 [] c = "r" -> 114 [] c = "s" -> 115 [] c = "t" -> 116
      [] c = "u" -> 117 [] c = "v" -> 118 [] c = "w" -> 119 [] c = "x" -> 120
      [] c = "y" -> 121 [] c = "z" -> 122 [] c = "A" -> 65 [] c = "B" -> 66
      [] c = "C" -> 67 [] c = "D" -> 68 [] c = "E" -> 69 [] c = "F" -> 70
      [] c = "G" -> 71 [] c = "H" -> 72 [] c = "I" -> 73 [] c = "J" -> 74
      [] c = "K" -> 75 [] c = "L" -> 76 [] c = "M" -> 77 [] c = "N" -> 78
      [] c = "O" -> 79 [] c = "P" -> 80 [] c = "Q" -> 81 [] c = "R" -> 82
      [] c = "S" -> 83 [] c = "T" -> 84 [] c = "U" -> 85 [] c = "V" -> 86
      [] c = "W" -> 87 [] c = "X" -> 88 [] c = "Y" -> 89 [] c = "Z" -> 90
      [] c = "." -> 46 [] c = "/" -> 47 [] c = ":" -> 58 [] c = "\\" -> 92
      [] c = "$" -> 36 [] c = " " -> 32

\* the string spelled by a tuple of one-character strings
Str(t) == [i \in 1..Len(t) |-> Code(t[i])]

\* char::to_uppercase on ASCII: a..z -> A..Z, every other character unchanged
ToUpperChar(c) == IF c >= 97 /\ c <= 122 THEN c - 32 ELSE c

\* str::to_uppercase
ToUpper(s) == [i \in 1..Len(s) |-> ToUpperChar(s[i])]

\* str::contains: needle occurs in hay as a contiguous substring
Contains(hay, needle) ==
    \E i \in 0..(Len(hay) - Len(needle)) :
        \A j \in 1..Len(needle) : hay[i + j] = needle[j]

\* byte-wise lexicographic order of two strings (the order of &[u8] keys)
BytesLess(s, t) ==
    \E i \in 1..(Len(s) + 1) :
        /\ \A j \in 1..(i - 1) : j <= Len(t) /\ s[j] = t[j]
        /\ \/ i = Len(s) + 1 /\ Len(t) >= i
           \/ i <= Len(s) /\ i <= Len(t) /\ s[i] < t[i]

(***************************************************************************)
(* Entries (FileEntry).                                                    *)
(***************************************************************************)
\* a UTF-16 code unit that is a surrogate: alone in a name, it makes the
\* name ill-formed Unicode
IsSurrogate(c) == c >= 55296 /\ c <= 57343

\* OsStr::to_str: None when the string holds an unpaired surrogate
ValidUnicode(s) == \A i \in 1..Len(s) : ~IsSurrogate(s[i])

\* OsStr::to_string_lossy: each unpaired surrogate becomes U+FFFD
Lossy(s) == [i \in 1..Len(s) |-> IF IsSurrogate(s[i]) THEN 65533 ELSE s[i]]

\* the extension of a name: the part after the last dot, lower-cased, or
\* empty (Path::extension: a name with no dot, or only a leading dot, has
\* none; to_str: an extension that is not valid Unicode counts as none)
ToLowerChar(c) == IF c >= 65 /\ c <= 90 THEN c + 32 ELSE c

LastDot(name) ==
    LET dots == {i \in 1..Len(name) : name[i] = 46}
    IN  IF dots = {} THEN 0 ELSE CHOOSE i \in dots : \A j \in dots : j <= i

\* the extension as the name spells it, not lower-cased
ExtensionOf_KeepsCase(name) ==
    LET d == LastDot(name)
        ext == [i \in 1..(Len(name) - d) |-> name[d + i]]
    IN  IF d <= 1 \/ ~ValidUnicode(ext) THEN <<>> ELSE ext

ExtensionOf(name) ==
    LET d == LastDot(name)
        ext == [i \in 1..(Len(name) - d) |-> name[d + i]]
    IN  IF d <= 1 \/ ~ValidUnicode(ext) THEN <<>>
        ELSE [i \in 1..Len(ext) |-> ToLowerChar(ext[i])]

\* a FileEntry built by a scan from the parent path, the separator and the
\* name: name and path go through to_string_lossy, the extension is taken
\* from the name as the file system spells it
FileEntry(parent, sep, name, size, modified, is_dir, drive) ==
    [name |-> Lossy(name), path |-> Lossy(parent \o sep \o name),
     extension |-> ExtensionOf(name), size |-> size, modified |-> modified,
     is_dir |-> is_dir, drive |-> drive, score |-> 0]

BS == Str(<<"\\">>)
DriveC == Str(<<"C", ":">>)
DriveD == Str(<<"D", ":">>)

\* the files of two small volumes, as the scans see them
eAb  == FileEntry(DriveC, BS, Str(<<"a", "b">>), 0, 5, TRUE, "C")
eAdb == FileEntry(eAb.path, BS, Str(<<"A", ".", "b">>), 7, 5, FALSE, "C")
eB   == FileEntry(DriveC, BS, Str(<<"b">>), 7, 0, FALSE, "C")
eBaB == FileEntry(DriveD, BS, Str(<<"B", "a", ".", "B">>), 7, 5, FALSE, "D")
eDb  == FileEntry(DriveD, BS, Str(<<"b">>), 0, 0, TRUE, "D")

FilesOf(drive) ==
    IF drive = "C" THEN {eAb, eAdb, eB}
    ELSE IF drive = "D" THEN {eBaB, eDb}
    ELSE {}

AllFiles == FilesOf("C") \cup FilesOf("D")

\* the index of the scenario of the specification's section 8
eReport  == FileEntry(<<>>, <<>>, Str(<<"r","e","p","o","r","t",".","P","D","F">>),
                      7, 5, FALSE, "C")
eReports == FileEntry(Str(<<"r","e","p","o","r","t","s">>), Str(<<"/">>),
                      Str(<<"o","l","d",".","t","x","t">>), 7, 5, FALSE, "C")
eNotes   == FileEntry(<<>>, <<>>, Str(<<"n","o","t","e","s",".","t","x","t">>),
                      7, 5, FALSE, "C")
ScenarioIndex == <<eReports, eNotes, eReport>>

\* an index in scan order with more than five entries matching "b": a
\* directory, four entries inside it, then two files of one-letter or longer
\* names
LongIndex ==
    <<eAb, eAdb,
      FileEntry(eAb.path, BS, Str(<<".", "b">>), 7, 5, FALSE, "C"),
      FileEntry(eAb.path, BS, Str(<<"B", "a", ".", "B">>), 7, 5, FALSE, "C"),
      FileEntry(eAb.path, BS, Str(<<"a", "b">>), 7, 5, FALSE, "C"),
      eB, eBaB>>

\* sequences without repetition over a set, of length at most n
RECURSIVE DistinctSeqs(_, _)
DistinctSeqs(S, n) ==
    IF n = 0 THEN {<<>>}
    ELSE LET shorter == DistinctSeqs(S, n - 1)
             longest == {t \in shorter : Len(t) = n - 1}
         IN  shorter \cup
             {Append(p[1], p[2]) :
                p \in {q \in longest \X S : \A i \in 1..Len(q[1]) : q[1][i] # q[2]}}

(***************************************************************************)
(* LocalNtfsSearcher::search.                                              *)
(***************************************************************************)
\* the first n elements of a sequence (Iterator::take)
Take(s, n) == IF n >= Len(s) THEN s ELSE SubSeq(s, 1, n)

\* the filter closure of search: name or path contains the upper-cased query
Matches(e, query_upper) ==
    \/ Contains(ToUpper(e.name), query_upper)
    \/ Contains(ToUpper(e.path), query_upper)

\* the elements of a sequence that satisfy the filter, in order
RECURSIVE FilterMatches(_, _)
FilterMatches(s, query_upper) ==
    IF s = <<>> THEN <<>>
    ELSE IF Matches(Head(s), query_upper)
         THEN <<Head(s)>> \o FilterMatches(Tail(s), query_upper)
         ELSE FilterMatches(Tail(s), query_upper)

\* RankLess with the name-match comparison the other way round
\* (a_name_match.cmp(&b_name_match))
RankLess_PathFirst(a, b, query_upper) ==
    LET a_name_match == Contains(ToUpper(a.name), query_upper)
        b_name_match == Contains(ToUpper(b.name), query_upper)
    IN  \/ ~a_name_match /\ b_name_match
        \/ a_name_match = b_name_match /\ Len(a.name) < Len(b.name)

\* the comparator of sort_by: TRUE when a must come strictly before b
\* (b_name_match.cmp(&a_name_match), then a.name.len().cmp(&b.name.len()))
RankLess(a, b, query_upper) ==
    LET a_name_match == Contains(ToUpper(a.name), query_upper)
        b_name_match == Contains(ToUpper(b.name), query_upper)
    IN  \/ a_name_match /\ ~b_name_match
        \/ a_name_match = b_name_match /\ Len(a.name) < Len(b.name)

\* stable insertion of e into a sorted sequence: after every element that is
\* not ranked after it
RECURSIVE InsertRanked(_, _, _)
InsertRanked(sorted, e, query_upper) ==
    IF sorted = <<>> THEN <<e>>
    ELSE IF RankLess(e, Head(sorted), query_upper)
         THEN <<e>> \o sorted
         ELSE <<Head(sorted)>> \o InsertRanked(Tail(sorted), e, query_upper)

\* slice::sort_by (a stable sort) with the comparator of search
RECURSIVE SortRanked(_, _)
SortRanked(s, query_upper) ==
    IF s = <<>> THEN <<>>
    ELSE InsertRanked(SortRanked(SubSeq(s, 1, Len(s) - 1), query_upper),
                      s[Len(s)], query_upper)

\* max_results * 5 in usize arithmetic, as a build without overflow checks
\* computes it
CandidateCap(max_results) == (max_results * 5) % UsizeModulus

\* search without the early return for the empty query
Search_RankEmpty(index, query, max_results) ==
    LET query_upper == ToUpper(query)
        candidates  == Take(FilterMatches(index, query_upper), CandidateCap(max_results))
    IN  Take(SortRanked(candidates, query_upper), max_results)

\* search without the final take(max_results)
Search_NoTruncate(index, query, max_results) ==
    IF query = <<>> THEN Take(index, max_results)
    ELSE LET query_upper == ToUpper(query)
             candidates  == Take(FilterMatches(index, query_upper), CandidateCap(max_results))
         IN  SortRanked(candidates, query_upper)

\* search that ranks every match, without the take(max_results * 5)
Search_RankAll(index, query, max_results) ==
    IF query = <<>> THEN Take(index, max_results)
    ELSE LET query_upper == ToUpper(query)
             candidates  == FilterMatches(index, query_upper)
         IN  Take(SortRanked(candidates, query_upper), max_results)

\* LocalNtfsSearcher::search(query, max_results) on an index
Search(index, query, max_results) ==
    IF query = <<>> THEN Take(index, max_results)
    ELSE LET query_upper == ToUpper(query)
             candidates  == Take(FilterMatches(index, query_upper), CandidateCap(max_results))
         IN  Take(SortRanked(candidates, query_upper), max_results)

(***************************************************************************)
(* The persisted cache (redb table "local_files": path bytes -> JSON).     *)
(***************************************************************************)
\* the fields of FileEntry, in declaration order
EntryFields ==
    <<"name", "path", "extension", "size", "modified", "is_dir", "drive", "score">>

\* serde_json::to_vec(entry): a field-named document, one member per field
ToJson(entry) == [i \in 1..Len(EntryFields) |-> <<EntryFields[i], entry[EntryFields[i]]>>]

\* the member of a document with a given field name, if there is one
HasMember(doc, field) == \E i \in 1..Len(doc) : doc[i][1] = field
Member(doc, field) == doc[CHOOSE i \in 1..Len(doc) : doc[i][1] = field][2]

\* serde_json::from_slice::<FileEntry> succeeds when every field is present
Decodable(doc) == \A i \in 1..Len(EntryFields) : HasMember(doc, EntryFields[i])

\* the entry a decodable document decodes to
FromJson(doc) ==
    [name |-> Member(doc, "name"), path |-> Member(doc, "path"),
     extension |-> Member(doc, "extension"), size |-> Member(doc, "size"),
     modified |-> Member(doc, "modified"), is_dir |-> Member(doc, "is_dir"),
     drive |-> Member(doc, "drive"), score |-> Member(doc, "score")]

\* save_to_cache keyed by the entry's name instead of its path
CacheKey_Name(entry) == entry.name

\* the key save_to_cache stores an entry under: entry.path.as_bytes()
CacheKey(entry) == entry.path

\* table.insert(key, value): an existing key is overwritten
TableInsert(t, key, value) ==
    [k \in (DOMAIN t) \cup {key} |-> IF k = key THEN value ELSE t[k]]

\* the table after inserting every entry of an index, in index order
RECURSIVE InsertAll(_, _)
InsertAll(t, index) ==
    IF index = <<>> THEN t
    ELSE InsertAll(TableInsert(t, CacheKey(Head(index)), ToJson(Head(index))),
                   Tail(index))

\* the keys of a table in ascending byte order (the order of table.iter())
RECURSIVE SortedKeys(_)
SortedKeys(keys) ==
    IF keys = {} THEN <<>>
    ELSE LET least == CHOOSE k \in keys : \A o \in keys \ {k} : BytesLess(k, o)
         IN  <<least>> \o SortedKeys(keys \ {least})

\* a read of the table that gives up as soon as one value does not decode
DecodeAll_RejectsUndecodable(t, keys) ==
    IF \E i \in 1..Len(keys) : ~Decodable(t[keys[i]]) THEN <<>>
    ELSE [i \in 1..Len(keys) |-> FromJson(t[keys[i]])]

\* the entries load_from_cache collects: the values that decode, in key order
RECURSIVE DecodeAll(_, _)
DecodeAll(t, keys) ==
    IF keys = <<>> THEN <<>>
    ELSE IF Decodable(t[Head(keys)])
         THEN <<FromJson(t[Head(keys)])>> \o DecodeAll(t, Tail(keys))
         ELSE DecodeAll(t, Tail(keys))

CacheEntries(t) == DecodeAll(t, SortedKeys(DOMAIN t))

EmptyTable == [k \in {} |-> <<>>]

\* a value left by an older format of FileEntry (no "drive" member)
StaleDoc == <<<<"name", Str(<<"b">>)>>, <<"path", eB.path>>, <<"size", 7>>>>
StaleTable == TableInsert(EmptyTable, eB.path, StaleDoc)

(***************************************************************************)
(* State.                                                                  *)
(***************************************************************************)
VARIABLES
    memory_index,   \* LocalNtfsSearcher.memory_index: the in-memory index
    ready,          \* LocalNtfsSearcher.ready
    db_open,        \* LocalNtfsSearcher.db is Some (Database::create succeeded)
    is_admin,       \* the process holds elevated privilege
    table,          \* the persisted table, path bytes -> document
    load_pc,        \* where load_all_drives stands
    all_entries,    \* load_all_drives: the entries scanned so far
    drives_left,    \* load_all_drives: the drives still to scan
    loaded_from,    \* what the installed index was built from
    saved,          \* the index the last committed save_to_cache persisted
    load_ret,       \* what load_all_drives returned, once it has
    cache_outcome,  \* what load_from_cache came to in this process
    s_call,         \* the last search call: its arguments and what it returned
    ix_entries,     \* Indexer.entries: the shared store
    ix_pc,          \* per drive task of scan_all: "walk", "final" or "done"
    ix_total,       \* per drive: how many items the walk of the drive yields
    ix_next,        \* per drive task: the next item of the walk
    ix_buf,         \* per drive task: drive_files, the local buffer
    ix_kept,        \* per drive task: the items pushed so far
    accept_pc,      \* the accept loop of run_service_logic
    pending,        \* the client connected to the listening pipe instance, or 0
    h_pc,           \* per connection: where handle_client stands
    h_resp,         \* per connection: the response handle_client built
    pipe_req,       \* per connection: request bytes in the pipe
    pipe_resp,      \* per connection: response bytes in the pipe
    c_pc,           \* per client: where its request stands
    c_req,          \* per client: the payload it sends
    c_fail,         \* per client: the stage at which its request failed
    c_result,       \* per client: what its caller received
    cli_table,      \* the persisted table of the client's user account
    cli_args,       \* per client: the arguments run_cli was called with
    tx,             \* save_to_cache: its write transaction
    inst,           \* per desktop process: its position in main and its mutex handle
    sc_drive,       \* scan_drive: the drive letter it is called with
    sc_vol,         \* the directory tree of the volume on that drive
    sc_pc,          \* where scan_drive stands
    sc_stack,       \* scan_ntfs_mft: the explicit stack of (directory, path)
    sc_dir,         \* scan_ntfs_mft: the directory being iterated
    sc_walk,        \* scan_walkdir: what the WalkDir iterator has yet to yield
    sc_entries,     \* the entries vector of the strategy that is running
    sc_log,         \* which strategies scan_drive ran and how they ended
    sc_ret          \* what scan_drive returned, once it has

loadVars == <<memory_index, ready, db_open, is_admin, table, load_pc, all_entries,
              drives_left, loaded_from, saved, load_ret, cache_outcome>>

ixVars == <<ix_entries, ix_pc, ix_total, ix_next, ix_buf, ix_kept>>

vars == <<memory_index, ready, db_open, is_admin, table, load_pc, all_entries,
          drives_left, loaded_from, saved, load_ret, cache_outcome, s_call,
          ix_entries, ix_pc, ix_total, ix_next, ix_buf, ix_kept,
          accept_pc, pending, h_pc, h_resp, pipe_req, pipe_resp,
          c_pc, c_req, c_fail, c_result, cli_table, cli_args, tx, inst,
          sc_drive, sc_vol, sc_pc, sc_stack, sc_dir, sc_walk, sc_entries, sc_log,
          sc_ret>>

scanVars == <<sc_drive, sc_vol, sc_pc, sc_stack, sc_dir, sc_walk, sc_entries, sc_log,
              sc_ret>>

svcVars == <<accept_pc, pending, h_pc, h_resp, pipe_req, pipe_resp,
             c_pc, c_req, c_fail, c_result, cli_table>>

Clients == 1..NumClients

NoPayload == [kind |-> "none"]
NoResponse == [kind |-> "none"]
NoResult == [kind |-> "pending", results |-> <<>>]
NoArgs == [query |-> <<>>, max_results |-> 0, search_scope |-> <<>>]

\* no write transaction has been begun: once one has, base is the table as
\* it was at begin_write, index the entries to insert, pending the table
\* inside the transaction, next the entry to insert next, and outcome how
\* the transaction ended
NoTx ==
    [open |-> FALSE, outcome |-> "none", base |-> <<>>, index |-> <<>>,
     pending |-> <<>>, next |-> 0]

\* the desktop processes that can be started
Instances == 1..NumInstances

\* no desktop process has been started
NoInstances == [pc |-> [p \in Instances |-> "exited"], handles |-> {}]

\* no server process and no client
SvcIdle ==
    /\ accept_pc = "absent"
    /\ pending = 0
    /\ h_pc = [c \in Clients |-> "none"]
    /\ h_resp = [c \in Clients |-> NoResponse]
    /\ pipe_req = [c \in Clients |-> NoPayload]
    /\ pipe_resp = [c \in Clients |-> NoResponse]
    /\ c_pc = [c \in Clients |-> "done"]
    /\ c_req = [c \in Clients |-> NoPayload]
    /\ c_fail = [c \in Clients |-> "none"]
    /\ c_result = [c \in Clients |-> NoResult]
    /\ cli_table = EmptyTable
    /\ cli_args = [c \in Clients |-> NoArgs]

\* no call of scan_drive is under way
NoDir == [path |-> <<>>, rest |-> <<>>]
NoLog == [mft |-> "none", walk |-> FALSE, clean |-> TRUE]
NoScanReturn == [kind |-> "none", by |-> "none", entries |-> <<>>]

ScanIdle ==
    /\ sc_drive = "C"
    /\ sc_vol = <<>>
    /\ sc_pc = "idle"
    /\ sc_stack = <<>>
    /\ sc_dir = NoDir
    /\ sc_walk = <<>>
    /\ sc_entries = <<>>
    /\ sc_log = NoLog
    /\ sc_ret = NoScanReturn

\* the drives of the machine that scan_all starts a task for
IxDrives == {"C", "D"}

\* an Indexer on which scan_all has not been called
IxIdle ==
    /\ ix_entries = <<>>
    /\ ix_pc = [d \in IxDrives |-> "done"]
    /\ ix_total = [d \in IxDrives |-> 0]
    /\ ix_next = [d \in IxDrives |-> 1]
    /\ ix_buf = [d \in IxDrives |-> <<>>]
    /\ ix_kept = [d \in IxDrives |-> {}]

\* load_all_drives has not returned; it returned Ok(count)
NoReturn == [kind |-> "none"]
OkReturn(count) == [kind |-> "ok", count |-> count]

\* no search has been called; while a call runs, pc is "iter", pos is how
\* far its iterator has read the index, acc what it has collected, and view
\* the index as it was when the call took the read lock
NoCall ==
    [query |-> <<>>, max_results |-> 0, results |-> <<>>, made |-> FALSE,
     pc |-> "idle", pos |-> 0, acc |-> <<>>, view |-> <<>>]

\* memory_index (an RwLock) is read-locked: a search holds its read guard
IndexReadLocked == s_call.pc = "iter"

(***************************************************************************)
(* Specification of search as a function of the index.                     *)
(***************************************************************************)
Queries ==
    {<<>>, Str(<<"a">>), Str(<<"a", "b">>), Str(<<"B">>), Str(<<".", "b">>),
     Str(<<"\\">>), Str(<<"z">>), Str(<<"r","e","p","o","r","t">>)}

Limits == (0..MaxLimit) \cup {10}

\* the indexes a scan can install: entries with pairwise distinct paths
Indexes == DistinctSeqs(AllFiles, MaxIndex) \cup {ScenarioIndex, LongIndex}

\* a searcher whose load has completed
InitSearch ==
    /\ memory_index \in Indexes
    /\ ready = TRUE
    /\ db_open = FALSE
    /\ is_admin = FALSE
    /\ table = EmptyTable
    /\ load_pc = "done"
    /\ all_entries = <<>>
    /\ drives_left = <<>>
    /\ loaded_from = "scan"
    /\ saved = <<>>
    /\ load_ret = NoReturn
    /\ cache_outcome = "none"
    /\ tx = NoTx
    /\ inst = NoInstances
    /\ s_call = NoCall
    /\ IxIdle
    /\ SvcIdle
    /\ ScanIdle

\* one call of search(query, max_results) against the index
DoSearch(query, max_results) ==
    /\ s_call' = [NoCall EXCEPT !.query = query, !.max_results = max_results,
                                !.results = Search(memory_index, query, max_results),
                                !.made = TRUE]
    /\ UNCHANGED <<cli_args, tx, inst, scanVars, loadVars, ixVars, svcVars>>

NextSearch == \E q \in Queries, n \in Limits : DoSearch(q, n)

SpecSearch == InitSearch /\ [][NextSearch]_vars

(***************************************************************************)
(* Properties of search.                                                   *)
(***************************************************************************)
Min(a, b) == IF a <= b THEN a ELSE b

Range(s) == {s[i] : i \in 1..Len(s)}

\* needle occurs in hay when the case of letters is ignored
ContainsIgnoreCase(hay, needle) ==
    \E i \in 0..(Len(hay) - Len(needle)) :
        \A j \in 1..Len(needle) : ToLowerChar(hay[i + j]) = ToLowerChar(needle[j])

\* C1: a search with the empty query returns exactly min(N, index size)
\* entries, and they are the first entries of the index in index order.
C1_EmptyQueryIsPrefix ==
    (s_call.made /\ s_call.query = <<>>) =>
        /\ Len(s_call.results) = Min(s_call.max_results, Len(memory_index))
        /\ \A i \in 1..Len(s_call.results) : s_call.results[i] = memory_index[i]

\* an empty query with a limit below the index size has been answered
C1_Witness ==
    /\ s_call.made /\ s_call.query = <<>>
    /\ s_call.max_results = 2 /\ Len(memory_index) = 3
    /\ s_call.results = <<memory_index[1], memory_index[2]>>

\* C2: a search with a non-empty query Q and limit N returns at most N
\* entries, each an entry of the index whose name or path contains Q when
\* case is ignored.
C2_ResultsBoundedAndMatching ==
    (s_call.made /\ s_call.query # <<>>) =>
        /\ Len(s_call.results) <= s_call.max_results
        /\ \A i \in 1..Len(s_call.results) :
              /\ s_call.results[i] \in Range(memory_index)
              /\ \/ ContainsIgnoreCase(s_call.results[i].name, s_call.query)
                 \/ ContainsIgnoreCase(s_call.results[i].path, s_call.query)

\* a query whose case differs from the entries' has been answered, and the
\* limit cut the list of matches
C2_Witness ==
    /\ s_call.made /\ s_call.query = Str(<<"B">>) /\ s_call.max_results = 2
    /\ Len(s_call.results) = 2
    /\ Len(FilterMatches(memory_index, ToUpper(s_call.query))) = 3
    /\ \E i \in 1..2 : /\ ~Contains(s_call.results[i].name, s_call.query)
                        /\ ~Contains(s_call.results[i].path, s_call.query)

\* C3: in the result of a search with a non-empty query, every entry whose
\* name contains the query comes before every entry matching only by its
\* path, and within each group names are in non-decreasing length; on the
\* index {report.PDF, reports/old.txt, notes.txt}, search("report", 10)
\* returns report.PDF, then reports/old.txt, and not notes.txt.
C3_NameMatchesRankFirst ==
    (s_call.made /\ s_call.query # <<>>) =>
        LET r == s_call.results
            nameMatch(e) == ContainsIgnoreCase(e.name, s_call.query)
        IN  /\ \A i, j \in 1..Len(r) :
                  i < j =>
                    /\ nameMatch(r[j]) => nameMatch(r[i])
                    /\ (nameMatch(r[i]) = nameMatch(r[j]))
                          => Len(r[i].name) <= Len(r[j].name)
            /\ ( /\ memory_index = ScenarioIndex
                 /\ s_call.query = Str(<<"r","e","p","o","r","t">>)
                 /\ s_call.max_results = 10 )
                  => r = <<eReport, eReports>>

\* a result list holding a name match, then a path-only match
C3_Witness ==
    /\ s_call.made /\ s_call.query = Str(<<"a", "b">>)
    /\ Len(s_call.results) = 2
    /\ memory_index[1] = s_call.results[2]
    /\ ContainsIgnoreCase(s_call.results[1].name, s_call.query)
    /\ ~ContainsIgnoreCase(s_call.results[2].name, s_call.query)

\* the positions of the index whose entry matches the query
MatchPositions(index, query) ==
    {i \in 1..Len(index) :
        \/ ContainsIgnoreCase(index[i].name, query)
        \/ ContainsIgnoreCase(index[i].path, query)}

\* the first n of them in index order
FirstPositions(M, n) == {i \in M : Cardinality({j \in M : j < i}) < n}

\* entry a ranks strictly before entry b: a name match before a path-only
\* match, then the shorter name
Outranks(a, b, query) ==
    LET an == ContainsIgnoreCase(a.name, query)
        bn == ContainsIgnoreCase(b.name, query)
    IN  (an /\ ~bn) \/ (an = bn /\ Len(a.name) < Len(b.name))

\* C29: for a non-empty query, search ranks only the first limit x 5
\* matching entries in index order: the result is the first `limit`
\* entries of that candidate set after ranking, and a matching entry that
\* lies after the first limit x 5 matches is never returned.
C29_RanksOnlyFirstCandidates ==
    (s_call.made /\ s_call.query # <<>>) =>
        LET r == s_call.results
            M == MatchPositions(memory_index, s_call.query)
            cand == FirstPositions(M, s_call.max_results * 5)
            late == M \ cand
        IN  /\ Len(r) = Min(s_call.max_results, Cardinality(cand))
            /\ \A k \in 1..Len(r) : \E i \in cand : r[k] = memory_index[i]
            /\ \A k \in 1..Len(r) : \A i \in late : r[k] # memory_index[i]
            /\ \A i \in cand :
                  (\A k \in 1..Len(r) : r[k] # memory_index[i]) =>
                      \A k \in 1..Len(r) : ~Outranks(memory_index[i], r[k], s_call.query)

\* a search of limit 1 left out a match beyond the fifth that outranks the
\* entry it returned
C29_Witness ==
    /\ s_call.made /\ s_call.query # <<>> /\ s_call.max_results = 1
    /\ Len(s_call.results) = 1
    /\ \E i \in MatchPositions(memory_index, s_call.query) :
          /\ i > 5
          /\ Outranks(memory_index[i], s_call.results[1], s_call.query)

(***************************************************************************)
(* The load sequence of one LocalNtfsSearcher per process, over successive *)
(* processes that share the persisted table.                               *)
(***************************************************************************)
\* what get_all_drives can return: the drive letters from C on, ascending
DriveLists == {<<>>, <<"C">>, <<"C", "D">>}

\* an entry as scan_ntfs_mft records it: size and modified left at zero
MftEntry(f) == [f EXCEPT !.size = 0, !.modified = 0]

\* an entry as scan_walkdir records it: size and modified from the metadata
WalkEntry(f) == f

\* the entries of a traversal under each strategy
MftEntries(t) == [i \in 1..Len(t) |-> MftEntry(t[i])]
WalkEntries(t) == [i \in 1..Len(t) |-> WalkEntry(t[i])]

\* what a traversal of a drive can enumerate: files of the drive, each once
Traversals(drive) == DistinctSeqs(FilesOf(drive), MaxScan)

\* the entry lists scan_drive can return for a drive: a non-empty direct
\* read when the process is elevated, otherwise (or when the direct read
\* fails or is empty) the directory walk
ScanDriveResults(admin, drive) ==
    (IF admin
     THEN {MftEntries(t) : t \in Traversals(drive) \ {<<>>}}
     ELSE {})
    \cup {WalkEntries(t) : t \in Traversals(drive)}

InitLoad ==
    /\ memory_index = <<>>
    /\ ready = FALSE
    /\ db_open \in BOOLEAN
    /\ is_admin \in BOOLEAN
    /\ table \in {EmptyTable, StaleTable}
    /\ load_pc = "idle"
    /\ all_entries = <<>>
    /\ drives_left = <<>>
    /\ loaded_from = "none"
    /\ saved = <<>>
    /\ load_ret = NoReturn
    /\ cache_outcome = "none"
    /\ tx = NoTx
    /\ inst = NoInstances
    /\ s_call = NoCall
    /\ IxIdle
    /\ SvcIdle
    /\ ScanIdle

\* a cache hit that goes on to enumerate and scan the drives
LoadFromCacheHit_Rescans ==
    /\ load_pc = "idle"
    /\ db_open
    /\ CacheEntries(table) # <<>>
    /\ memory_index' = CacheEntries(table)
    /\ loaded_from' = "cache"
    /\ cache_outcome' = "hit"
    /\ load_pc' = "scan"
    /\ \E ds \in DriveLists : drives_left' = ds
    /\ UNCHANGED <<cli_args, tx, inst, scanVars, ready, db_open, is_admin, table, all_entries, saved, load_ret,
                   s_call, ixVars, svcVars>>

\* a cache hit that installs the entries in the order the save wrote them
LoadFromCacheHit_InSavedOrder ==
    /\ load_pc = "idle"
    /\ db_open
    /\ CacheEntries(table) # <<>>
    /\ ~IndexReadLocked
    /\ memory_index' = (IF saved # <<>> THEN saved ELSE CacheEntries(table))
    /\ loaded_from' = "cache"
    /\ cache_outcome' = "hit"
    /\ load_pc' = "cache_hit"
    /\ UNCHANGED <<cli_args, tx, inst, scanVars, ready, db_open, is_admin, table, all_entries, drives_left,
                   saved, load_ret, s_call, ixVars, svcVars>>

\* load_all_drives, step 1: load_from_cache finds entries and installs them
LoadFromCacheHit ==
    /\ load_pc = "idle"
    /\ db_open
    /\ CacheEntries(table) # <<>>
    /\ ~IndexReadLocked
    /\ memory_index' = CacheEntries(table)
    /\ loaded_from' = "cache"
    /\ cache_outcome' = "hit"
    /\ load_pc' = "cache_hit"
    /\ UNCHANGED <<cli_args, tx, inst, scanVars, ready, db_open, is_admin, table, all_entries, drives_left,
                   saved, load_ret, s_call, ixVars, svcVars>>

\* load_all_drives: count > 0, so mark ready and return Ok(count)
MarkReadyFromCache ==
    /\ load_pc = "cache_hit"
    /\ ready' = TRUE
    /\ load_ret' = OkReturn(Len(memory_index))
    /\ load_pc' = "done"
    /\ UNCHANGED <<cli_args, tx, inst, scanVars, memory_index, db_open, is_admin, table, all_entries,
                   drives_left, loaded_from, saved, cache_outcome, s_call, ixVars,
                   svcVars>>

\* load_all_drives, step 1: load_from_cache returns None, because there is
\* no database ("no_db"), or begin_read, open_table or iter fails
\* ("read_fault": always so while no save has created the table), or no
\* value of the table decodes ("no_entry"); step 2 begins with
\* get_all_drives
LoadFromCacheMiss ==
    /\ load_pc = "idle"
    /\ \E outcome \in {"no_db", "read_fault", "no_entry"} :
          /\ (outcome = "no_db") = ~db_open
          /\ (outcome = "no_entry") => table # EmptyTable /\ CacheEntries(table) = <<>>
          /\ cache_outcome' = outcome
    /\ \E ds \in DriveLists : drives_left' = ds
    /\ all_entries' = <<>>
    /\ load_pc' = "scan"
    /\ UNCHANGED <<cli_args, tx, inst, scanVars, memory_index, ready, db_open, is_admin, table, loaded_from,
                   saved, load_ret, s_call, ixVars, svcVars>>

\* load_all_drives, step 2: the loop calls scan_drive for the next drive,
\* the head of drives_left, and awaits it
ScanDriveCalled ==
    /\ load_pc = "scan"
    /\ drives_left # <<>>
    /\ load_pc' = "scanning"
    /\ UNCHANGED <<cli_args, tx, inst, scanVars, memory_index, ready, db_open, is_admin, table, all_entries,
                   drives_left, loaded_from, saved, load_ret, cache_outcome, s_call,
                   ixVars, svcVars>>

\* load_all_drives, step 2: scan_drive returns, all_entries is extended and
\* the loop goes on to the next drive
ScanDrive ==
    /\ load_pc = "scanning"
    /\ \E r \in ScanDriveResults(is_admin, Head(drives_left)) :
          all_entries' = all_entries \o r
    /\ drives_left' = Tail(drives_left)
    /\ load_pc' = "scan"
    /\ UNCHANGED <<cli_args, tx, inst, scanVars, memory_index, ready, db_open, is_admin, table,
                   loaded_from, saved, load_ret, cache_outcome, s_call, ixVars, svcVars>>

\* load_all_drives, step 2: the direct read of the next drive panics outside
\* its catch_unwind (root lookup or index traversal); the panic unwinds
\* through scan_drive and load_all_drives, which never returns
ScanDrivePanics ==
    /\ load_pc = "scanning"
    /\ is_admin
    /\ load_pc' = "unwound"
    /\ UNCHANGED <<cli_args, tx, inst, scanVars, memory_index, ready, db_open, is_admin, table, all_entries,
                   drives_left, loaded_from, saved, load_ret, cache_outcome, s_call,
                   ixVars, svcVars>>

\* a load that sets ready where it should install the index
Install_MarksReadyFirst ==
    /\ load_pc = "scan"
    /\ drives_left = <<>>
    /\ ready' = TRUE
    /\ loaded_from' = "scan"
    /\ load_pc' = "mark_ready"
    /\ UNCHANGED <<cli_args, tx, inst, scanVars, memory_index, db_open, is_admin, table, all_entries,
                   drives_left, saved, load_ret, cache_outcome, s_call, ixVars, svcVars>>

\* the assignment of the index made without waiting for the write lock
Install_IgnoresLock ==
    /\ load_pc = "scan"
    /\ drives_left = <<>>
    /\ memory_index' = all_entries
    /\ loaded_from' = "scan"
    /\ load_pc' = "mark_ready"
    /\ UNCHANGED <<cli_args, tx, inst, scanVars, ready, db_open, is_admin, table, all_entries, drives_left,
                   saved, load_ret, cache_outcome, s_call, ixVars, svcVars>>

\* load_all_drives: *index = all_entries under the write lock, which is
\* granted when no reader holds the lock
Install ==
    /\ load_pc = "scan"
    /\ drives_left = <<>>
    /\ ~IndexReadLocked
    /\ memory_index' = all_entries
    /\ loaded_from' = "scan"
    /\ load_pc' = "mark_ready"
    /\ UNCHANGED <<cli_args, tx, inst, scanVars, ready, db_open, is_admin, table, all_entries, drives_left,
                   saved, load_ret, cache_outcome, s_call, ixVars, svcVars>>

\* load_all_drives: *ready = true; the save follows only when count > 0
MarkReady ==
    /\ load_pc = "mark_ready"
    /\ ready' = TRUE
    /\ load_pc' = IF Len(all_entries) > 0 THEN "save" ELSE "done"
    /\ load_ret' = IF Len(all_entries) > 0 THEN load_ret ELSE OkReturn(0)
    /\ UNCHANGED <<cli_args, tx, inst, scanVars, memory_index, db_open, is_admin, table, all_entries,
                   drives_left, loaded_from, saved, cache_outcome, s_call, ixVars,
                   svcVars>>

\* the store failed this process's read of a table that holds data (a
\* storage error, or a table of another type): its write transaction on
\* the same table fails as well
StoreFaulty == cache_outcome = "read_fault" /\ table # EmptyTable

\* save_to_cache: every entry inserted in one write transaction, committed
SaveToCacheCommit ==
    /\ load_pc = "save"
    /\ db_open
    /\ ~StoreFaulty
    /\ table' = InsertAll(table, memory_index)
    /\ saved' = memory_index
    /\ load_ret' = OkReturn(Len(all_entries))
    /\ load_pc' = "done"
    /\ UNCHANGED <<cli_args, tx, inst, scanVars, memory_index, ready, db_open, is_admin, all_entries,
                   drives_left, loaded_from, cache_outcome, s_call, ixVars, svcVars>>

\* a failed save_to_cache that also clears the ready flag
SaveToCacheFail_ClearsReady ==
    /\ load_pc = "save"
    /\ load_pc' = "done"
    /\ ready' = FALSE
    /\ load_ret' = OkReturn(Len(all_entries))
    /\ UNCHANGED <<cli_args, tx, inst, scanVars, memory_index, db_open, is_admin, table, all_entries,
                   drives_left, loaded_from, saved, cache_outcome, s_call, ixVars,
                   svcVars>>

\* a failed save_to_cache whose error load_all_drives returns
SaveToCacheFail_ReturnsErr ==
    /\ load_pc = "save"
    /\ load_pc' = "done"
    /\ load_ret' = [kind |-> "err"]
    /\ UNCHANGED <<cli_args, tx, inst, scanVars, memory_index, ready, db_open, is_admin, table, all_entries,
                   drives_left, loaded_from, saved, cache_outcome, s_call, ixVars,
                   svcVars>>

\* save_to_cache fails (no database, or the transaction does not commit):
\* the table is left as it was, and load_all_drives ignores the error
SaveToCacheFail ==
    /\ load_pc = "save"
    /\ load_pc' = "done"
    /\ load_ret' = OkReturn(Len(all_entries))
    /\ UNCHANGED <<cli_args, tx, inst, scanVars, memory_index, ready, db_open, is_admin, table, all_entries,
                   drives_left, loaded_from, saved, cache_outcome, s_call, ixVars,
                   svcVars>>

\* the process exits and a new one constructs its searcher
\* (LocalNtfsSearcher::new); only the persisted table survives
Restart ==
    /\ memory_index' = <<>>
    /\ ready' = FALSE
    /\ db_open' \in BOOLEAN
    /\ is_admin' \in BOOLEAN
    /\ load_pc' = "idle"
    /\ all_entries' = <<>>
    /\ drives_left' = <<>>
    /\ loaded_from' = "none"
    /\ load_ret' = NoReturn
    /\ cache_outcome' = "none"
    /\ UNCHANGED <<cli_args, tx, inst, scanVars, table, saved, s_call, ixVars, svcVars>>

NextLoad ==
    \/ LoadFromCacheHit
    \/ MarkReadyFromCache
    \/ LoadFromCacheMiss
    \/ ScanDriveCalled
    \/ ScanDrive
    \/ ScanDrivePanics
    \/ Install
    \/ MarkReady
    \/ SaveToCacheCommit
    \/ SaveToCacheFail
    \/ Restart

SpecLoad == InitLoad /\ [][NextLoad]_vars

Readiness ==
    IF ready THEN "Ready"
    ELSE IF load_pc = "idle" THEN "NotReady"
    ELSE "Loading"

\* C10: within one process readiness only moves NotReady -> Loading ->
\* Ready: once ready is true it is never false again, and no step leaves
\* Ready for Loading or Loading for NotReady.
C10_ReadinessOnlyForward ==
    [][(~Restart) =>
          /\ ready => ready'
          /\ (Readiness = "Ready") => (Readiness' = "Ready")
          /\ (Readiness = "Loading") => (Readiness' \in {"Loading", "Ready"})
          /\ (Readiness = "NotReady") => (Readiness' \in {"NotReady", "Loading"})]_vars

\* a load that scanned has marked the searcher ready and gone on to the save
C10_Witness == ready /\ load_pc = "save" /\ loaded_from = "scan"

\* load_all_drives takes its first step
LoadBegins == load_pc = "idle" /\ load_pc' # "idle"

\* the load of this process took the cache path: nothing is scanned, the
\* table is not written, and it returns the count of the installed entries
CachePathOnly ==
    (loaded_from' = "cache") =>
        /\ table' = table
        /\ all_entries' = <<>> /\ drives_left' = <<>>
        /\ load_pc' \in {"cache_hit", "done"}
        /\ memory_index' = CacheEntries(table)
        /\ (load_pc' = "done") =>
              ready' /\ load_ret' = OkReturn(Len(memory_index'))

\* C11 (as stated): when the persisted table is non-empty at load time (and
\* the database opens and is read without fault), load installs the
\* persisted entries, marks Ready and returns their count without
\* enumerating or scanning any drive and without writing to the table.
C11_NonEmptyTableSkipsScan ==
    [][/\ (LoadBegins /\ db_open /\ table # EmptyTable
            /\ cache_outcome' # "read_fault") => loaded_from' = "cache"
       /\ CachePathOnly]_vars

\* C11 (corrected): when at least one value of the persisted table decodes
\* at load time (and the database opens and is read without fault), load
\* installs the entries that decode, in key order, marks Ready and returns
\* their count without enumerating or scanning any drive and without
\* writing to the table; a table none of whose values decodes is rescanned.
C11_DecodableCacheSkipsScan ==
    [][/\ (LoadBegins /\ db_open /\ CacheEntries(table) # <<>>
            /\ cache_outcome' # "read_fault") => loaded_from' = "cache"
       /\ (LoadBegins /\ db_open /\ CacheEntries(table) = <<>>)
             => loaded_from' # "cache" /\ load_pc' = "scan"
       /\ CachePathOnly]_vars

\* a load returned from the cache path on a table that also holds a value
\* that does not decode
C11_Witness ==
    /\ load_pc = "done" /\ loaded_from = "cache" /\ ready
    /\ Len(memory_index) = 2
    /\ load_ret = OkReturn(2)
    /\ \E k \in DOMAIN table : ~Decodable(table[k])

\* C12: if persisting the freshly scanned snapshot fails, load still returns
\* success with the scanned entry count, the in-memory index still holds
\* the scanned entries and the state is Ready.
C12_SaveFailureDoesNotFailLoad ==
    [][SaveToCacheFail =>
          /\ load_ret' = OkReturn(Len(all_entries))
          /\ Len(all_entries) > 0
          /\ memory_index' = all_entries
          /\ ready'
          /\ table' = table]_vars

\* a load without a database scanned two drives, could not save and returned
C12_Witness ==
    /\ load_pc = "done" /\ loaded_from = "scan" /\ ~db_open
    /\ ready /\ load_ret = OkReturn(Len(memory_index))
    /\ \E i, j \in 1..Len(memory_index) : memory_index[i].drive # memory_index[j].drive
    /\ table = EmptyTable

\* the persisted cache cannot be used by the load that begins
CacheUnusable ==
    \/ ~db_open
    \/ cache_outcome' = "read_fault"
    \/ CacheEntries(table) = <<>>

\* C13: if the persisted cache cannot be used at load time (no database, a
\* failing read transaction or table open, or no entry), load behaves as if
\* no cache existed: it enumerates the drives and scans them all, installs
\* what the scans returned, reaches Ready and returns Ok; it does not end in
\* any other way.
C13_UnusableCacheMeansFullScan ==
    [][/\ (LoadBegins /\ CacheUnusable) =>
             /\ load_pc' = "scan"
             /\ drives_left' \in DriveLists
             /\ all_entries' = <<>>
             /\ load_ret' = NoReturn
       /\ (load_pc' = "done" /\ cache_outcome' \in {"no_db", "read_fault", "no_entry"}) =>
             /\ ready'
             /\ loaded_from' = "scan"
             /\ drives_left' = <<>>
             /\ memory_index' = all_entries'
             /\ load_ret' = OkReturn(Len(all_entries'))
       /\ (cache_outcome' \in {"no_db", "read_fault", "no_entry"}) =>
             load_pc' # "unwound"]_vars

\* C24: the scan of a single failing drive does not abort the load: whatever
\* the outcome of a drive's scan, the loop goes on to the next drive keeping
\* the entries of the drives scanned before, and the load ends by
\* installing the entries of all drives, marking Ready and returning Ok.
C24_FailingDriveDoesNotAbortLoad ==
    [][(~Restart) =>
          /\ (load_pc = "scanning") =>
                /\ load_pc' = "scan"
                /\ drives_left' = Tail(drives_left)
                /\ Len(all_entries') >= Len(all_entries)
                /\ SubSeq(all_entries', 1, Len(all_entries)) = all_entries
          /\ (load_pc' = "done" /\ loaded_from' = "scan") =>
                /\ ready'
                /\ memory_index' = all_entries'
                /\ load_ret' = OkReturn(Len(all_entries'))]_vars

\* C25: in a load that scans, the steps happen in the order install, mark
\* Ready, persist: whenever ready is true the in-memory index holds the
\* complete loaded snapshot, and the persistence attempt is made only when
\* ready is true.
C25_InstallThenReadyThenPersist ==
    /\ ready =>
          \/ loaded_from = "scan" /\ memory_index = all_entries /\ drives_left = <<>>
          \/ loaded_from = "cache" /\ memory_index = CacheEntries(table)
                /\ memory_index # <<>>
    /\ (load_pc = "save") => ready /\ loaded_from = "scan"

\* a load has installed the entries of two drives and marked Ready, and the
\* save has not yet run
C25_Witness ==
    /\ ready /\ load_pc = "save" /\ table = EmptyTable /\ saved = <<>>
    /\ memory_index = all_entries
    /\ \E i, j \in 1..Len(memory_index) : memory_index[i].drive # memory_index[j].drive

\* C22: during a load that does not hit the cache the drives are scanned in
\* parallel: while the scan of one drive is in progress and another drive is
\* still to be scanned, the load can start that drive's scan (a slow drive
\* does not delay the start of another drive's scan).
C22_DrivesScanInParallel ==
    (load_pc = "scanning" /\ Len(drives_left) > 1) => ENABLED ScanDriveCalled

(***************************************************************************)
(* Indexer::scan_all: one task per drive, merging into the shared store.   *)
(***************************************************************************)
\* a searcher that is not used while the Indexer runs
LoadIdle ==
    /\ memory_index = <<>>
    /\ ready = FALSE
    /\ db_open = FALSE
    /\ is_admin = FALSE
    /\ table = EmptyTable
    /\ load_pc = "idle"
    /\ all_entries = <<>>
    /\ drives_left = <<>>
    /\ loaded_from = "none"
    /\ saved = <<>>
    /\ load_ret = NoReturn
    /\ cache_outcome = "none"
    /\ tx = NoTx
    /\ inst = NoInstances
    /\ s_call = NoCall

\* scan_all on a new Indexer: the store is empty, every drive's task starts
\* its walk; the walk of a drive yields some number of items
InitIndexer ==
    /\ LoadIdle
    /\ SvcIdle
    /\ ScanIdle
    /\ ix_entries = <<>>
    /\ ix_pc = [d \in IxDrives |-> "walk"]
    /\ ix_total \in [IxDrives -> 0..MaxItems]
    /\ ix_next = [d \in IxDrives |-> 1]
    /\ ix_buf = [d \in IxDrives |-> <<>>]
    /\ ix_kept = [d \in IxDrives |-> {}]

\* the FileEntry the task of a drive builds for an item of its walk
IxEntry(d, i) == [drive |-> d, item |-> i]

\* drain without clearing the local buffer
IxAfterMerge_KeepsBuffer(buffer) == buffer

\* the local buffer after extend(drive_files.drain(..))
IxAfterMerge(buffer) == <<>>

\* one iteration of the walk loop that pushes the item; when the buffer
\* then holds more than BatchSize entries it is drained into the store
\* under the write lock
IxPush(d) ==
    /\ ix_pc[d] = "walk"
    /\ ix_next[d] <= ix_total[d]
    /\ LET pushed == Append(ix_buf[d], IxEntry(d, ix_next[d]))
       IN  IF Len(pushed) > BatchSize
           THEN /\ ix_entries' = ix_entries \o pushed
                /\ ix_buf' = [ix_buf EXCEPT ![d] = IxAfterMerge(pushed)]
           ELSE /\ ix_buf' = [ix_buf EXCEPT ![d] = pushed]
                /\ UNCHANGED ix_entries
    /\ ix_kept' = [ix_kept EXCEPT ![d] = @ \cup {ix_next[d]}]
    /\ ix_next' = [ix_next EXCEPT ![d] = @ + 1]
    /\ UNCHANGED <<cli_args, tx, inst, scanVars, ix_pc, ix_total, loadVars, s_call, svcVars>>

\* one iteration of the walk loop that skips the item (its path is under
\* $RECYCLE.BIN or System Volume Information)
IxSkip(d) ==
    /\ ix_pc[d] = "walk"
    /\ ix_next[d] <= ix_total[d]
    /\ ix_next' = [ix_next EXCEPT ![d] = @ + 1]
    /\ UNCHANGED <<cli_args, tx, inst, scanVars, ix_entries, ix_pc, ix_total, ix_buf, ix_kept, loadVars, s_call, svcVars>>

\* the walk of the drive is exhausted
IxWalkEnds(d) ==
    /\ ix_pc[d] = "walk"
    /\ ix_next[d] > ix_total[d]
    /\ ix_pc' = [ix_pc EXCEPT ![d] = "final"]
    /\ UNCHANGED <<cli_args, tx, inst, scanVars, ix_entries, ix_total, ix_next, ix_buf, ix_kept, loadVars, s_call, svcVars>>

\* the final merge of what is left in the local buffer
IxFinalMerge(d) ==
    /\ ix_pc[d] = "final"
    /\ ix_entries' = ix_entries \o ix_buf[d]
    /\ ix_buf' = [ix_buf EXCEPT ![d] = <<>>]
    /\ ix_pc' = [ix_pc EXCEPT ![d] = "done"]
    /\ UNCHANGED <<cli_args, tx, inst, scanVars, ix_total, ix_next, ix_kept, loadVars, s_call, svcVars>>

NextIndexer ==
    \E d \in IxDrives :
        \/ IxPush(d)
        \/ IxSkip(d)
        \/ IxWalkEnds(d)
        \/ IxFinalMerge(d)

SpecIndexer == InitIndexer /\ [][NextIndexer]_vars

\* how many times an entry occurs in the store
Occurrences(store, e) == Cardinality({i \in 1..Len(store) : store[i] = e})

IxAllDone == \A d \in IxDrives : ix_pc[d] = "done"

\* C9: after all drive tasks have completed, the shared store holds every
\* entry discovered by every task exactly once, whatever the interleaving
\* of the merges (two tasks of N entries each leave exactly 2N entries).
C9_StoreHoldsEveryEntryOnce ==
    IxAllDone =>
        /\ \A d \in IxDrives : \A i \in ix_kept[d] :
              Occurrences(ix_entries, IxEntry(d, i)) = 1
        /\ \A k \in 1..Len(ix_entries) :
              ix_entries[k].item \in ix_kept[ix_entries[k].drive]
        /\ Len(ix_entries) = Cardinality(ix_kept["C"]) + Cardinality(ix_kept["D"])

\* both tasks discovered more than one batch and their merges interleaved
C9_Witness ==
    /\ IxAllDone
    /\ \A d \in IxDrives : Cardinality(ix_kept[d]) = BatchSize + 2
    /\ Len(ix_entries) = 2 * (BatchSize + 2)
    /\ ix_entries[1].drive # ix_entries[Len(ix_entries)].drive
    /\ \E k \in 2..(Len(ix_entries) - 1) :
          ix_entries[k].drive # ix_entries[k + 1].drive
          /\ ix_entries[k].drive = ix_entries[1].drive
          /\ \E m \in (k + 2)..Len(ix_entries) : ix_entries[m].drive = ix_entries[1].drive

\* the step is a merge of the local buffer of d into the store made inside
\* the walk loop, that is, not the final one
IxBatchMerge(d) ==
    /\ ix_pc[d] = "walk" /\ ix_pc'[d] = "walk"
    /\ ix_next'[d] # ix_next[d]
    /\ ix_entries' # ix_entries

\* C23: a per-drive task merges its local buffer into the shared store in
\* batches of BatchSize (5000) entries: the local buffer never holds more
\* than BatchSize entries, and every merge except the final remainder moves
\* exactly BatchSize entries.
C23_MergesInFixedBatches ==
    [][\A d \in IxDrives :
          /\ Len(ix_buf'[d]) <= BatchSize
          /\ IxBatchMerge(d) =>
                /\ Len(ix_entries') - Len(ix_entries) = BatchSize
                /\ Len(ix_buf[d]) < BatchSize]_vars

(***************************************************************************)
(* Indexer::scan_all called again and again on one Indexer.                *)
(***************************************************************************)
\* Indexer::new: an empty store, and no task
InitRescan ==
    /\ LoadIdle
    /\ SvcIdle
    /\ ScanIdle
    /\ IxIdle

\* scan_all: one task per drive starts its walk; self.entries is left as it
\* is.  Here the walk of a drive yields at most one item, and the calls are
\* cut off once the store holds MaxItems entries.
IxScanAll ==
    /\ IxAllDone
    /\ Len(ix_entries) < MaxItems
    /\ ix_pc' = [d \in IxDrives |-> "walk"]
    /\ ix_total' \in [IxDrives -> 0..1]
    /\ ix_next' = [d \in IxDrives |-> 1]
    /\ ix_buf' = [d \in IxDrives |-> <<>>]
    /\ ix_kept' = [d \in IxDrives |-> {}]
    /\ UNCHANGED <<cli_args, tx, inst, scanVars, ix_entries, loadVars, s_call, svcVars>>

NextRescan ==
    \/ IxScanAll
    \/ \E d \in IxDrives : IxPush(d)
    \/ \E d \in IxDrives : IxSkip(d)
    \/ \E d \in IxDrives : IxWalkEnds(d)
    \/ \E d \in IxDrives : IxFinalMerge(d)

SpecRescan == InitRescan /\ [][NextRescan]_vars

\* C27: a rescan replaces the catalog wholesale: after a scan completes the
\* store holds exactly the entries found by that scan, and entries that
\* were in the store before the scan started are not retained.
C27_RescanReplacesWholesale ==
    IxAllDone =>
        /\ \A k \in 1..Len(ix_entries) :
              ix_entries[k].item \in ix_kept[ix_entries[k].drive]
        /\ \A d \in IxDrives : \A i \in ix_kept[d] :
              Occurrences(ix_entries, IxEntry(d, i)) = 1

(***************************************************************************)
(* The named-pipe server (run_service_logic, handle_client) and its        *)
(* clients (client_request, run_cli).                                      *)
(***************************************************************************)
\* the size of the server's request buffer
RequestBuffer == 4096
\* the size of the client's response buffer
ResponseBuffer == 65536

\* the snapshot an earlier run of the load persisted
WarmIndex == <<eB, eAb, eBaB>>
WarmTable == InsertAll(EmptyTable, WarmIndex)

\* length of the JSON text of a SearchRequest (the member names and
\* punctuation, then the query)
RequestBytes(query) == 70 + Len(query)

\* the payloads a client writes: requests as run_cli encodes them, and raw
\* bytes of another local process, short or longer than the request buffer,
\* or none at all (the process closes its end having written nothing)
ClientRequests ==
    {[kind |-> "request", query |-> q, max_results |-> n, limit |-> n,
      bytes_len |-> RequestBytes(q)] :
        q \in {Str(<<"b">>)}, n \in {1}}

\* the request run_cli encodes for a query so long that the server's one
\* read returns only its first RequestBuffer bytes
LongRequest ==
    [kind |-> "request", query |-> [i \in 1..LongQueryUnits |-> 98],
     max_results |-> 1, limit |-> 1, bytes_len |-> RequestBytes([i \in 1..LongQueryUnits |-> 98])]

RawPayloads ==
    {[kind |-> "raw", bytes_len |-> 0],
     [kind |-> "raw", bytes_len |-> 10],
     [kind |-> "raw", bytes_len |-> RequestBuffer + 1]}

\* serde_json::from_slice::<SearchRequest>(&buffer[..n]) on what one read
\* of at most RequestBuffer bytes returned
RequestDecodes(payload) ==
    payload.kind = "request" /\ payload.bytes_len <= RequestBuffer

\* the SearchResultItem handle_client builds from an entry
ResultItem(e) == [e EXCEPT !.score = 1]

ResultItems(results) == [i \in 1..Len(results) |-> ResultItem(results[i])]

\* a response whose total_count is the size of the index
ResponseFor_CountsIndex(payload, index) ==
    IF RequestDecodes(payload)
    THEN LET items == ResultItems(Search(index, payload.query, payload.max_results))
         IN  [kind |-> "response", success |-> TRUE, elapsed_ms |-> 0,
              total_count |-> Len(index), results |-> items, total |-> 0,
              error |-> FALSE]
    ELSE [kind |-> "response", success |-> FALSE, elapsed_ms |-> 0,
          total_count |-> 0, results |-> <<>>, total |-> 0, error |-> TRUE]

\* the response handle_client builds for what it read, on the index as it is
ResponseFor(payload, index) ==
    IF RequestDecodes(payload)
    THEN LET items == ResultItems(Search(index, payload.query, payload.max_results))
         IN  [kind |-> "response", success |-> TRUE, elapsed_ms |-> 0,
              total_count |-> Len(items), results |-> items, total |-> 0,
              error |-> FALSE]
    ELSE [kind |-> "response", success |-> FALSE, elapsed_ms |-> 0,
          total_count |-> 0, results |-> <<>>, total |-> 0, error |-> TRUE]

\* length of a string in UTF-8: one byte below U+0080, two below U+0800,
\* three for the rest of the basic plane
Utf8Len(s) ==
    Len(s) + Cardinality({i \in 1..Len(s) : s[i] >= 128})
           + Cardinality({i \in 1..Len(s) : s[i] >= 2048})

\* length of the JSON text of an entry and of a response
RECURSIVE EntriesBytes(_)
EntriesBytes(items) ==
    IF items = <<>> THEN 0
    ELSE 96 + Utf8Len(Head(items).name) + Utf8Len(Head(items).path)
            + Utf8Len(Head(items).extension) + EntriesBytes(Tail(items))

ResponseBytes(resp) == 83 + EntriesBytes(resp.results)

\* a decoder that accepts the part of a document that fits the buffer
ResponseDecodes_Lenient(resp) == TRUE

\* serde_json::from_slice(&response_data[..n]) on what one read of at most
\* ResponseBuffer bytes returned
ResponseDecodes(resp) == ResponseBytes(resp) <= ResponseBuffer

\* the FileEntry run_cli builds from a result item
CliEntry(r) == [r EXCEPT !.drive = " ", !.score = 0]

CliEntries(results) == [i \in 1..Len(results) |-> CliEntry(results[i])]

\* the entry lists a full scan of the drives can produce
RECURSIVE ScanAllResults(_, _)
ScanAllResults(admin, drives) ==
    IF drives = <<>> THEN {<<>>}
    ELSE {r \o rest : r \in ScanDriveResults(admin, Head(drives)),
                      rest \in ScanAllResults(admin, Tail(drives))}

\* the index load_all_drives installs in the client's process: the cached
\* entries when the database opens and some value decodes, else a full scan
ScanIndexesElevated == UNION {ScanAllResults(TRUE, ds) : ds \in DriveLists}
ScanIndexesUnprivileged == UNION {ScanAllResults(FALSE, ds) : ds \in DriveLists}

LocalLoadIndexes(dbok, admin, t) ==
    IF dbok /\ CacheEntries(t) # <<>>
    THEN {CacheEntries(t)}
    ELSE IF admin THEN ScanIndexesElevated ELSE ScanIndexesUnprivileged

\* a pipe instance whose server handle is still open
ServerEndOpen(c) == pending = c \/ h_pc[c] \in {"read", "write", "sleep", "stalled"}

\* the instances of the pipe that exist
LiveInstances == {c \in Clients : ServerEndOpen(c)}

\* the service starts: the searcher is constructed, the background load is
\* spawned and the accept loop begins; no client has connected
InitService ==
    /\ memory_index = <<>>
    /\ ready = FALSE
    /\ db_open = TRUE
    /\ is_admin = TRUE
    /\ table = WarmTable
    /\ load_pc = "idle"
    /\ all_entries = <<>>
    /\ drives_left = <<>>
    /\ loaded_from = "none"
    /\ saved = WarmIndex
    /\ load_ret = NoReturn
    /\ cache_outcome = "none"
    /\ tx = NoTx
    /\ inst = NoInstances
    /\ s_call = NoCall
    /\ IxIdle
    /\ accept_pc = "create"
    /\ pending = 0
    /\ h_pc = [c \in Clients |-> "none"]
    /\ h_resp = [c \in Clients |-> NoResponse]
    /\ pipe_req = [c \in Clients |-> NoPayload]
    /\ pipe_resp = [c \in Clients |-> NoResponse]
    /\ c_pc = [c \in Clients |-> "idle"]
    /\ c_req = [c \in Clients |-> NoPayload]
    /\ c_fail = [c \in Clients |-> "none"]
    /\ c_result = [c \in Clients |-> NoResult]
    /\ cli_table = WarmTable
    /\ cli_args = [c \in Clients |-> NoArgs]
    /\ ScanIdle

\* ServerOptions::new().first_pipe_instance(true).create(PIPE_NAME) when no
\* instance of the pipe exists: the instance is created, connect() awaits
AcceptCreate ==
    /\ accept_pc = "create"
    /\ LiveInstances = {}
    /\ accept_pc' = "connect"
    /\ UNCHANGED <<cli_args, tx, inst, scanVars, pending, h_pc, h_resp, pipe_req, pipe_resp, c_pc, c_req,
                   c_fail, c_result, cli_table, loadVars, s_call, ixVars>>

\* the same call while an instance of the pipe exists: creation fails with
\* access denied, and the ? returns the error from run_service_logic
AcceptCreateFails ==
    /\ accept_pc = "create"
    /\ LiveInstances # {}
    /\ accept_pc' = "failed"
    /\ UNCHANGED <<cli_args, tx, inst, scanVars, pending, h_pc, h_resp, pipe_req, pipe_resp, c_pc, c_req,
                   c_fail, c_result, cli_table, loadVars, s_call, ixVars>>

\* server.connect() completes: the connection is handed to a spawned
\* handle_client task and the loop goes on to create the next instance
AcceptSpawn ==
    /\ accept_pc = "connect"
    /\ pending # 0
    /\ h_pc' = [h_pc EXCEPT ![pending] = "read"]
    /\ pending' = 0
    /\ accept_pc' = "create"
    /\ UNCHANGED <<cli_args, tx, inst, scanVars, h_resp, pipe_req, pipe_resp, c_pc, c_req, c_fail, c_result,
                   cli_table, loadVars, s_call, ixVars>>

\* a handle_client that starts over after its sleep and reads the same
\* connection again
HandlerClose_ReadsAgain(c) ==
    /\ h_pc[c] = "sleep"
    /\ h_pc' = [h_pc EXCEPT ![c] = "read"]
    /\ UNCHANGED <<cli_args, tx, inst, scanVars, accept_pc, pending, h_resp, pipe_req, pipe_resp, c_pc, c_req,
                   c_fail, c_result, cli_table, loadVars, s_call, ixVars>>

\* a handle_client that refuses a request while the index is not ready
HandlerRead_RefusesUnready(c) ==
    /\ h_pc[c] = "read"
    /\ pipe_req[c] # NoPayload
    /\ pipe_req' = [pipe_req EXCEPT ![c] = NoPayload]
    /\ IF pipe_req[c].bytes_len = 0
       THEN /\ h_pc' = [h_pc EXCEPT ![c] = "closed"]
            /\ h_resp' = h_resp
       ELSE /\ h_pc' = [h_pc EXCEPT ![c] = "write"]
            /\ h_resp' = [h_resp EXCEPT ![c] =
                            IF ready THEN ResponseFor(pipe_req[c], memory_index)
                            ELSE ResponseFor([kind |-> "raw", bytes_len |-> 1],
                                             memory_index)]
    /\ UNCHANGED <<cli_args, tx, inst, scanVars, accept_pc, pending, pipe_resp, c_pc, c_req, c_fail,
                   c_result, cli_table, loadVars, s_call, ixVars>>

\* handle_client: one read of the request; a read of no bytes returns
\* Ok(()) at once, which drops the server handle; else decode, search and
\* build the response
HandlerRead(c) ==
    /\ h_pc[c] = "read"
    /\ pipe_req[c] # NoPayload
    /\ pipe_req' = [pipe_req EXCEPT ![c] = NoPayload]
    /\ IF pipe_req[c].bytes_len = 0
       THEN /\ h_pc' = [h_pc EXCEPT ![c] = "closed"]
            /\ h_resp' = h_resp
       ELSE /\ h_pc' = [h_pc EXCEPT ![c] = "write"]
            /\ h_resp' = [h_resp EXCEPT ![c] = ResponseFor(pipe_req[c], memory_index)]
    /\ UNCHANGED <<cli_args, tx, inst, scanVars, accept_pc, pending, pipe_resp, c_pc, c_req, c_fail, c_result,
                   cli_table, loadVars, s_call, ixVars>>

\* handle_client: write_all and flush of the response, then the 50 ms sleep
HandlerWrite(c) ==
    /\ h_pc[c] = "write"
    /\ pipe_resp' = [pipe_resp EXCEPT ![c] = h_resp[c]]
    /\ h_pc' = [h_pc EXCEPT ![c] = "sleep"]
    /\ UNCHANGED <<cli_args, tx, inst, scanVars, accept_pc, pending, h_resp, pipe_req, c_pc, c_req, c_fail,
                   c_result, cli_table, loadVars, s_call, ixVars>>

\* handle_client returns after the sleep: the server handle is dropped
HandlerClose(c) ==
    /\ h_pc[c] = "sleep"
    /\ h_pc' = [h_pc EXCEPT ![c] = "closed"]
    /\ UNCHANGED <<cli_args, tx, inst, scanVars, accept_pc, pending, h_resp, pipe_req, pipe_resp, c_pc, c_req,
                   c_fail, c_result, cli_table, loadVars, s_call, ixVars>>

\* run_service_logic has returned: the runtime is dropped and a handler task
\* still in flight is cancelled, which drops its server handle
HandlerAborted(c) ==
    /\ accept_pc = "failed"
    /\ h_pc[c] \in {"read", "write", "sleep"}
    /\ h_pc' = [h_pc EXCEPT ![c] = "closed"]
    /\ UNCHANGED <<cli_args, tx, inst, scanVars, accept_pc, pending, h_resp, pipe_req, pipe_resp, c_pc, c_req,
                   c_fail, c_result, cli_table, loadVars, s_call, ixVars>>

\* the peer stops serving the connection but keeps it open (the server
\* process hangs or is suspended)
HandlerStalls(c) ==
    /\ h_pc[c] \in {"read", "write"}
    /\ h_pc' = [h_pc EXCEPT ![c] = "stalled"]
    /\ UNCHANGED <<cli_args, tx, inst, scanVars, accept_pc, pending, h_resp, pipe_req, pipe_resp, c_pc, c_req,
                   c_fail, c_result, cli_table, loadVars, s_call, ixVars>>

\* where a client goes when client_request returns Err: run_cli falls back
\* to the local index; another process has nothing more to do
AfterFailure(payload) == IF payload.kind = "request" THEN "fallback" ELSE "done"

\* ClientOptions::new().open(PIPE_NAME) finds a listening instance
ClientConnect(c, payload) ==
    /\ c_pc[c] = "idle"
    /\ accept_pc = "connect"
    /\ pending = 0
    /\ pending' = c
    /\ c_req' = [c_req EXCEPT ![c] = payload]
    /\ c_pc' = [c_pc EXCEPT ![c] = "write"]
    /\ UNCHANGED <<cli_args, tx, inst, scanVars, accept_pc, h_pc, h_resp, pipe_req, pipe_resp, c_fail,
                   c_result, cli_table, loadVars, s_call, ixVars>>

\* open fails: no instance of the pipe is listening
ClientConnectFails(c, payload) ==
    /\ c_pc[c] = "idle"
    /\ ~(accept_pc = "connect" /\ pending = 0)
    /\ c_req' = [c_req EXCEPT ![c] = payload]
    /\ c_fail' = [c_fail EXCEPT ![c] = "connect"]
    /\ c_pc' = [c_pc EXCEPT ![c] = AfterFailure(payload)]
    /\ UNCHANGED <<cli_args, tx, inst, scanVars, accept_pc, pending, h_pc, h_resp, pipe_req, pipe_resp,
                   c_result, cli_table, loadVars, s_call, ixVars>>

\* client.write_all(request_data) into the pipe; a process that writes
\* nothing closes its end instead, and the server's read returns no bytes
ClientWrite(c) ==
    /\ c_pc[c] = "write"
    /\ ServerEndOpen(c)
    /\ pipe_req' = [pipe_req EXCEPT ![c] = c_req[c]]
    /\ c_pc' = [c_pc EXCEPT ![c] = IF c_req[c].bytes_len = 0 THEN "done" ELSE "read"]
    /\ UNCHANGED <<cli_args, tx, inst, scanVars, accept_pc, pending, h_pc, h_resp, pipe_resp, c_req, c_fail,
                   c_result, cli_table, loadVars, s_call, ixVars>>

\* write_all fails: the server end of the connection is closed
ClientWriteFails(c) ==
    /\ c_pc[c] = "write"
    /\ ~ServerEndOpen(c)
    /\ c_fail' = [c_fail EXCEPT ![c] = "write"]
    /\ c_pc' = [c_pc EXCEPT ![c] = AfterFailure(c_req[c])]
    /\ UNCHANGED <<cli_args, tx, inst, scanVars, accept_pc, pending, h_pc, h_resp, pipe_req, pipe_resp, c_req,
                   c_result, cli_table, loadVars, s_call, ixVars>>

\* what run_cli returns for a response that client_request decoded
RemoteResult(resp) ==
    IF resp.success
    THEN [kind |-> "remote", results |-> CliEntries(resp.results)]
    ELSE [kind |-> "empty", results |-> <<>>]

\* a run_cli that treats a response with success = false as a failure of
\* the request and goes on to the local fallback
ClientRead_FallsBackOnFailure(c) ==
    /\ c_pc[c] = "read"
    /\ pipe_resp[c] # NoResponse
    /\ ResponseDecodes(pipe_resp[c])
    /\ pipe_resp' = [pipe_resp EXCEPT ![c] = NoResponse]
    /\ c_result' = [c_result EXCEPT ![c] =
                      IF c_req[c].kind = "request" /\ pipe_resp[c].success
                      THEN RemoteResult(pipe_resp[c])
                      ELSE @]
    /\ c_pc' = [c_pc EXCEPT ![c] =
                  IF c_req[c].kind = "request" /\ ~pipe_resp[c].success
                  THEN "fallback" ELSE "done"]
    /\ UNCHANGED <<cli_args, tx, inst, scanVars, accept_pc, pending, h_pc, h_resp, pipe_req, c_req,
                   c_fail, cli_table, loadVars, s_call, ixVars>>

\* client.read(&mut response_data) returns the response and it decodes
ClientRead(c) ==
    /\ c_pc[c] = "read"
    /\ pipe_resp[c] # NoResponse
    /\ ResponseDecodes(pipe_resp[c])
    /\ pipe_resp' = [pipe_resp EXCEPT ![c] = NoResponse]
    /\ c_result' = [c_result EXCEPT ![c] =
                      IF c_req[c].kind = "request" THEN RemoteResult(pipe_resp[c])
                      ELSE @]
    /\ c_pc' = [c_pc EXCEPT ![c] = "done"]
    /\ UNCHANGED <<cli_args, tx, inst, scanVars, accept_pc, pending, h_pc, h_resp, pipe_req, c_req, c_fail,
                   cli_table, loadVars, s_call, ixVars>>

\* read returns no more than ResponseBuffer bytes of a longer response, or
\* nothing because the server end was closed with no response written:
\* serde_json::from_slice fails
ClientReadFails(c) ==
    /\ c_pc[c] = "read"
    /\ \/ pipe_resp[c] # NoResponse /\ ~ResponseDecodes(pipe_resp[c])
       \/ pipe_resp[c] = NoResponse /\ ~ServerEndOpen(c)
    /\ pipe_resp' = [pipe_resp EXCEPT ![c] = NoResponse]
    /\ c_fail' = [c_fail EXCEPT ![c] =
                    IF pipe_resp[c] = NoResponse THEN "read" ELSE "decode"]
    /\ c_pc' = [c_pc EXCEPT ![c] = AfterFailure(c_req[c])]
    /\ UNCHANGED <<cli_args, tx, inst, scanVars, accept_pc, pending, h_pc, h_resp, pipe_req, c_req, c_result,
                   cli_table, loadVars, s_call, ixVars>>

\* a fallback that hands the transport error to the caller
FallbackResult_Propagates(index, payload) ==
    [kind |-> "error", results |-> <<>>]

\* what the fallback of run_cli returns: the local search on the loaded index
FallbackResult(index, payload) ==
    [kind |-> "local", results |-> Search(index, payload.query, payload.max_results)]

\* what the fallback can return after a full scan, per request and privilege
ScanFallbackResults ==
    [payload \in ClientRequests \cup {LongRequest} |->
        [admin \in BOOLEAN |->
            {FallbackResult(index, payload) :
                index \in LocalLoadIndexes(FALSE, admin, EmptyTable)}]]

\* run_cli, else branch: LocalNtfsSearcher::new, load_all_drives (its error
\* ignored, its save best-effort), then search on the local index.  With a
\* database and cached entries the index is the cache; with no database it
\* is a scan that cannot be saved; with a database and no cached entry it is
\* a scan whose save may commit.
ClientFallback(c) ==
    /\ c_pc[c] = "fallback"
    /\ LET cached == CacheEntries(cli_table)
       IN  \E dbok \in BOOLEAN :
             IF dbok /\ cached # <<>>
             THEN /\ c_result' = [c_result EXCEPT ![c] = FallbackResult(cached, c_req[c])]
                  /\ cli_table' = cli_table
             ELSE IF ~dbok
             THEN /\ \E admin \in BOOLEAN :
                       \E res \in ScanFallbackResults[c_req[c]][admin] :
                           c_result' = [c_result EXCEPT ![c] = res]
                  /\ cli_table' = cli_table
             ELSE \E admin \in BOOLEAN :
                    \E index \in LocalLoadIndexes(dbok, admin, cli_table) :
                       /\ c_result' = [c_result EXCEPT ![c] =
                                         FallbackResult(index, c_req[c])]
                       /\ cli_table' \in
                            IF index # <<>>
                            THEN {cli_table, InsertAll(cli_table, index)}
                            ELSE {cli_table}
    /\ c_pc' = [c_pc EXCEPT ![c] = "done"]
    /\ UNCHANGED <<cli_args, tx, inst, scanVars, accept_pc, pending, h_pc, h_resp, pipe_req, pipe_resp, c_req,
                   c_fail, loadVars, s_call, ixVars>>

\* the steps of client c
ClientStep(c) ==
    \/ \E payload \in ClientRequests \cup RawPayloads : ClientConnect(c, payload)
    \/ \E payload \in ClientRequests : ClientConnectFails(c, payload)
    \/ ClientWrite(c)
    \/ ClientWriteFails(c)
    \/ ClientRead(c)
    \/ ClientReadFails(c)
    \/ ClientFallback(c)

NextService ==
    \/ AcceptCreate
    \/ AcceptCreateFails
    \/ AcceptSpawn
    \/ \E c \in Clients :
         \/ HandlerRead(c)
         \/ HandlerWrite(c)
         \/ HandlerClose(c)
         \/ HandlerAborted(c)
         \/ HandlerStalls(c)
         \/ ClientStep(c)
    \/ LoadFromCacheHit
    \/ MarkReadyFromCache

SpecService == InitService /\ [][NextService]_vars

\* the handler of connection c has answered a payload it could not decode
RejectedPayload(c) == h_resp[c].kind = "response" /\ ~h_resp[c].success

\* C5: when a client sends a payload that cannot be decoded as a request,
\* or one larger than the request buffer, the server drops that connection
\* and the accept loop keeps running, so that the next client is served.
C5_BadPayloadKeepsServing ==
    \A c \in Clients : RejectedPayload(c) => accept_pc # "failed"

\* C6: while an accepted connection is still being handled, the accept loop
\* does not terminate: it goes on to accept the next client.
C6_SlowClientDoesNotStopAccepting ==
    (\E c \in Clients : h_pc[c] \in {"read", "write", "sleep"}) => accept_pc # "failed"

\* client c ran run_cli, its request over the pipe failed, and it returned
FellBack(c) ==
    /\ c_pc[c] = "done"
    /\ c_req[c].kind = "request"
    /\ c_fail[c] # "none"

C8_ClientWaitIsBounded ==
    \A c \in Clients :
        (c_pc[c] = "read" /\ h_pc[c] = "stalled") => ENABLED ClientStep(c)

\* the step takes the request of connection c off the pipe
ReadsRequest(c) == pipe_req[c] # NoPayload /\ pipe_req'[c] = NoPayload

\* the step puts a response on the pipe of connection c
WritesResponse(c) == pipe_resp'[c] # NoResponse /\ pipe_resp'[c] # pipe_resp[c]

\* C28: on each accepted connection the server reads one request, writes
\* at most one response and closes: a handler never returns to reading, a
\* request is read only by a handler that has not read yet, the response
\* is the one built from that request and the index alone and is written
\* once, after the write the handler only closes, a closed connection is
\* neither read nor written, and a read of no bytes closes the connection
\* with no response built or written.
C28_OneRequestOneResponsePerConnection ==
    [][\A c \in Clients :
          /\ h_pc'[c] = "read" => h_pc[c] \in {"none", "read"}
          /\ ReadsRequest(c) =>
                /\ h_pc[c] = "read"
                /\ ~WritesResponse(c)
                /\ \A d \in Clients \ {c} : h_resp'[d] = h_resp[d]
                /\ IF pipe_req[c].bytes_len = 0
                   THEN h_pc'[c] = "closed" /\ h_resp'[c] = NoResponse
                   ELSE /\ h_pc'[c] = "write"
                        /\ h_resp'[c] = ResponseFor(pipe_req[c], memory_index)
          /\ WritesResponse(c) =>
                /\ h_pc[c] = "write" /\ h_pc'[c] = "sleep"
                /\ pipe_resp'[c] = h_resp[c]
          /\ h_pc[c] = "sleep" => h_pc'[c] \in {"sleep", "closed"}
          /\ h_pc[c] = "closed" =>
                /\ h_pc'[c] = "closed"
                /\ ~ReadsRequest(c) /\ ~WritesResponse(c)
                /\ h_resp[c] = NoResponse => pipe_resp[c] = NoResponse
      ]_vars

\* one connection was closed on a read of no bytes with nothing written,
\* and another was read, answered and closed, its client holding the answer
C28_Witness ==
    \E c1, c2 \in Clients :
        /\ h_pc[c1] = "closed" /\ c_pc[c1] = "done"
        /\ c_req[c1].bytes_len = 0 /\ pipe_req[c1] = NoPayload
        /\ h_resp[c1] = NoResponse /\ pipe_resp[c1] = NoResponse
        /\ h_pc[c2] = "closed" /\ c_pc[c2] = "done"
        /\ h_resp[c2].kind = "response" /\ h_resp[c2].success
        /\ c_result[c2].kind = "remote"

\* a request as any local process can encode it
RequestPayload(query, max_results, limit) ==
    [kind |-> "request", query |-> query, max_results |-> max_results,
     limit |-> limit, bytes_len |-> RequestBytes(query)]

\* the response to a request that matched nothing
NoMatchResponse ==
    [kind |-> "response", success |-> TRUE, elapsed_ms |-> 0, total_count |-> 0,
     results |-> <<>>, total |-> 0, error |-> FALSE]

\* C31: the server accepts and answers without waiting for the load, and
\* search does not look at readiness: a request that is read before the
\* index is installed is answered at once with success = true and no
\* results, whatever the query, and that response is the one a query with
\* no match gets from a loaded index.
C31_UnreadyIndexAnswersEmpty ==
    [][\A c \in Clients :
          (ReadsRequest(c) /\ RequestDecodes(pipe_req[c]) /\ load_pc = "idle") =>
              /\ ~ready /\ memory_index = <<>>
              /\ h_resp'[c] = NoMatchResponse
              /\ h_pc'[c] = "write"
              /\ \A q \in Queries, n \in Limits :
                    /\ ResponseFor(RequestPayload(q, n, n), memory_index)
                          = NoMatchResponse
                    /\ Search(WarmIndex, q, n) = <<>> =>
                          ResponseFor(RequestPayload(q, n, n), WarmIndex)
                             = NoMatchResponse
      ]_vars

\* a client holds the empty answer of a request that the server read while
\* its load had not begun, and the index is installed by now
C31_Witness ==
    \E c \in Clients :
        /\ c_pc[c] = "done" /\ c_fail[c] = "none"
        /\ c_result[c] = [kind |-> "remote", results |-> <<>>]
        /\ h_resp[c] = NoMatchResponse
        /\ memory_index # <<>>
        /\ Search(memory_index, c_req[c].query, c_req[c].max_results) # <<>>

\* a response is well formed for the payload it answers
WellFormed(resp, payload) ==
    /\ resp.success = ~resp.error
    /\ resp.success = RequestDecodes(payload)
    /\ resp.success =>
          /\ resp.total_count = Len(resp.results)
          /\ Len(resp.results) <= payload.max_results
    /\ ~resp.success => resp.results = <<>> /\ resp.total_count = 0 /\ resp.error

\* C32: every response the server builds or writes is well formed: success
\* is true exactly when error is absent; on success total_count is the
\* number of results, which is at most the request's max_results, and the
\* request's limit changes nothing; on a decode failure success is false,
\* results is empty, total_count is 0 and error is present.
C32_ResponsesAreWellFormed ==
    \A c \in Clients :
        /\ h_resp[c] # NoResponse => WellFormed(h_resp[c], c_req[c])
        /\ pipe_resp[c] # NoResponse =>
              pipe_resp[c] = h_resp[c] /\ WellFormed(pipe_resp[c], c_req[c])
        /\ (h_pc[c] = "write" /\ c_req[c].kind = "request") =>
              \A l \in Limits :
                  ResponseFor([c_req[c] EXCEPT !.limit = l], memory_index)
                     = ResponseFor(c_req[c], memory_index)

\* the server has written a response cut to the request's max_results
\* although more entries match, and a failure response to another client
C32_Witness ==
    \E c1, c2 \in Clients :
        /\ pipe_resp[c1] # NoResponse /\ pipe_resp[c1].success
        /\ pipe_resp[c1].total_count = c_req[c1].max_results
        /\ Len(FilterMatches(memory_index, ToUpper(c_req[c1].query)))
              > c_req[c1].max_results
        /\ h_resp[c2] # NoResponse /\ ~h_resp[c2].success /\ h_pc[c2] = "closed"

(***************************************************************************)
(* scan_drive on one drive: the direct read of the volume's directory      *)
(* indexes (scan_ntfs_mft) and the directory walk (scan_walkdir).          *)
(***************************************************************************)
NameDot == Str(<<".">>)
NameRecycle == Str(<<"$","R","e","c","y","c","l","e",".","B","i","n">>)
NameSvi ==
    Str(<<"S","y","s","t","e","m"," ","V","o","l","u","m","e"," ",
          "I","n","f","o","r","m","a","t","i","o","n">>)
NameWindows == Str(<<"W","i","n","d","o","w","s">>)
NameExplorer == Str(<<"e","x","p","l","o","r","e","r",".","e","x","e">>)

\* a file record of a volume: its name, whether it is a directory, and the
\* records its directory index lists, in index order
Node(name, is_dir, kids) == [name |-> name, is_dir |-> is_dir, kids |-> kids]

\* a system volume: the root's own "." entry, a recycle bin, the OS system
\* directory holding the shell executable, and a file
VolSys ==
    0 :> Node(<<>>, TRUE, <<1, 2, 4, 6>>) @@
    1 :> Node(NameDot, TRUE, <<>>) @@
    2 :> Node(NameRecycle, TRUE, <<3>>) @@
    3 :> Node(Str(<<"b">>), FALSE, <<>>) @@
    4 :> Node(NameWindows, TRUE, <<5>>) @@
    5 :> Node(NameExplorer, FALSE, <<>>) @@
    6 :> Node(Str(<<"b">>), FALSE, <<>>)

\* a data volume: two files whose names end in different unpaired
\* surrogates, a directory of three files, two files, and the volume's
\* internal metadata directory
VolData ==
    0 :> Node(<<>>, TRUE, <<9, 10, 1, 5, 6, 7>>) @@
    1 :> Node(Str(<<"a", "b">>), TRUE, <<2, 3, 4>>) @@
    2 :> Node(Str(<<"A", ".", "b">>), FALSE, <<>>) @@
    3 :> Node(Str(<<".", "b">>), FALSE, <<>>) @@
    4 :> Node(Str(<<"b">>), FALSE, <<>>) @@
    5 :> Node(Str(<<"b">>), FALSE, <<>>) @@
    6 :> Node(Str(<<"B", "a", ".", "B">>), FALSE, <<>>) @@
    7 :> Node(NameSvi, TRUE, <<8>>) @@
    8 :> Node(Str(<<"b">>), FALSE, <<>>) @@
    9 :> Node(Str(<<"b", ".">>) \o <<55296>>, FALSE, <<>>) @@
    10 :> Node(Str(<<"b", ".">>) \o <<55297>>, FALSE, <<>>)

\* the literals the scans look for in the upper-cased path
PatRecycle == Str(<<"\\">>) \o ToUpper(NameRecycle)
PatSvi == Str(<<"\\">>) \o ToUpper(NameSvi)
PatWindows == Str(<<"C", ":", "\\">>) \o ToUpper(NameWindows)
PatExplorer == ToUpper(NameExplorer)

\* the exclusion test of scan_ntfs_mft on the path as it is spelled
MftExcluded_CaseSensitive(full_path) ==
    \/ Contains(full_path, PatRecycle)
    \/ Contains(full_path, PatSvi)
    \/ Contains(full_path, PatWindows) /\ ~Contains(full_path, PatExplorer)

\* the exclusion test of scan_ntfs_mft, on full_path.to_uppercase()
MftExcluded(full_path) ==
    LET path_upper == ToUpper(full_path)
    IN  \/ Contains(path_upper, PatRecycle)
        \/ Contains(path_upper, PatSvi)
        \/ Contains(path_upper, PatWindows) /\ ~Contains(path_upper, PatExplorer)

\* the tests of scan_walkdir: on the upper-cased path, then on the name
WalkExcluded(path, name) ==
    LET path_upper == ToUpper(path)
    IN  \/ Contains(path_upper, PatWindows)
        \/ Contains(path_upper, PatRecycle)
        \/ name = <<>>
        \/ name[1] = 36

\* a traversal without an entry cap
CapReached_Never(entries) == FALSE

\* an entry count one past the cap
CapReached_OffByOne(entries) == Len(entries) > local_max_cache

\* entries.len() >= GLOBAL_CONFIG.local_max_cache
CapReached(entries) == Len(entries) >= local_max_cache

\* the path scan_ntfs_mft starts from: format!("{}:", drive)
MftRoot(drive) == Str(<<drive, ":">>)

\* the root scan_walkdir walks: format!("{}:\\", drive)
WalkRoot(drive) == Str(<<drive, ":", "\\">>)

\* what WalkDir yields below a directory, in pre-order: each item with the
\* path of its parent and the separator the join puts between them
RECURSIVE WalkBelow(_, _, _, _)
WalkBelow(vol, kids, parent, sep) ==
    IF kids = <<>> THEN <<>>
    ELSE LET n == vol[Head(kids)]
             item == [node |-> Head(kids), parent |-> parent, sep |-> sep]
         IN  (IF n.name = NameDot THEN <<>>
              ELSE <<item>> \o
                   (IF n.is_dir
                    THEN WalkBelow(vol, n.kids, parent \o sep \o n.name, BS)
                    ELSE <<>>))
             \o WalkBelow(vol, Tail(kids), parent, sep)

\* what WalkDir::new(root) yields: the root itself, then what is below it
WalkItems(vol, drive) ==
    <<[node |-> 0, parent |-> <<>>, sep |-> <<>>]>>
        \o WalkBelow(vol, vol[0].kids, WalkRoot(drive), <<>>)

\* the name DirEntry::file_name gives: for the root, the root path itself
WalkName(vol, drive, item) ==
    IF item.node = 0 THEN WalkRoot(drive) ELSE vol[item.node].name

\* scan_drive is called on a drive, in a process that is elevated or not
InitScan ==
    /\ memory_index = <<>>
    /\ ready = FALSE
    /\ db_open = FALSE
    /\ is_admin \in BOOLEAN
    /\ table = EmptyTable
    /\ load_pc = "scan"
    /\ all_entries = <<>>
    /\ drives_left = <<>>
    /\ loaded_from = "none"
    /\ saved = <<>>
    /\ load_ret = NoReturn
    /\ cache_outcome = "no_db"
    /\ tx = NoTx
    /\ inst = NoInstances
    /\ s_call = NoCall
    /\ IxIdle
    /\ SvcIdle
    /\ sc_drive \in {"C", "D"}
    /\ sc_vol \in {VolSys, VolData}
    /\ sc_pc = "start"
    /\ sc_stack = <<>>
    /\ sc_dir = NoDir
    /\ sc_walk = <<>>
    /\ sc_entries = <<>>
    /\ sc_log = NoLog
    /\ sc_ret = NoScanReturn

\* scan_drive goes on to self.scan_walkdir(drive); mft records how the
\* direct read ended, clean whether no fault has occurred so far
StartWalk(mft, clean) ==
    /\ sc_pc' = "walk"
    /\ sc_walk' = WalkItems(sc_vol, sc_drive)
    /\ sc_entries' = <<>>
    /\ sc_stack' = <<>>
    /\ sc_dir' = NoDir
    /\ sc_log' = [mft |-> mft, walk |-> TRUE, clean |-> clean]
    /\ UNCHANGED sc_ret

\* a strategy returns Ok(entries) and scan_drive returns it
ScanReturns(by, entries) ==
    /\ sc_ret' = [kind |-> "ok", by |-> by, entries |-> entries]
    /\ sc_entries' = entries
    /\ sc_pc' = "done"
    /\ sc_log' = IF by = "mft" THEN [sc_log EXCEPT !.mft = "ok"] ELSE sc_log

\* a panic leaves scan_ntfs_mft, scan_drive and load_all_drives by unwinding
Unwinds ==
    /\ sc_pc' = "unwound"
    /\ sc_log' = [sc_log EXCEPT !.mft = "panic", !.clean = FALSE]
    /\ UNCHANGED <<cli_args, tx, inst, sc_stack, sc_dir, sc_walk, sc_entries, sc_ret>>

\* scan_drive: if is_admin() the direct read is attempted, else the walk
ScanStart ==
    /\ sc_pc = "start"
    /\ IF is_admin
       THEN /\ sc_pc' = "mft_open"
            /\ sc_log' = [sc_log EXCEPT !.mft = "tried"]
            /\ UNCHANGED <<cli_args, tx, inst, sc_stack, sc_dir, sc_walk, sc_entries, sc_ret>>
       ELSE StartWalk("none", TRUE)
    /\ UNCHANGED <<cli_args, tx, inst, sc_drive, sc_vol, loadVars, s_call, ixVars, svcVars>>

\* scan_ntfs_mft up to the traversal: open the volume device, Ntfs::new
\* inside catch_unwind, ntfs.root_directory.  An open error, a parse error,
\* a caught parse panic and a root lookup error return Err, and scan_drive
\* falls back to the walk; a panic of the root lookup is not caught.
MftOpen ==
    /\ sc_pc = "mft_open"
    /\ \E outcome \in {"ok", "open_err", "parse_err", "parse_panic", "root_err",
                        "root_panic"} :
          CASE outcome = "ok" ->
                 /\ sc_stack' = <<[dir |-> 0, path |-> MftRoot(sc_drive)]>>
                 /\ sc_pc' = "mft_pop"
                 /\ UNCHANGED <<cli_args, tx, inst, sc_dir, sc_walk, sc_entries, sc_log, sc_ret>>
            [] outcome = "root_panic" -> Unwinds
            [] OTHER -> StartWalk("err", FALSE)
    /\ UNCHANGED <<cli_args, tx, inst, sc_drive, sc_vol, loadVars, s_call, ixVars, svcVars>>

\* scan_ntfs_mft: stack.pop().  With the stack empty the loop ends and
\* Ok(entries) is returned: scan_drive returns it when it is not empty and
\* goes on to the walk otherwise.  Else dir.directory_index is read: on Ok
\* the directory's index is iterated, on Err the directory is left out, and
\* a panic is not caught.
MftPop ==
    /\ sc_pc = "mft_pop"
    /\ IF sc_stack = <<>>
       THEN IF sc_entries # <<>>
            THEN ScanReturns("mft", sc_entries) /\ UNCHANGED <<cli_args, tx, inst, sc_stack, sc_dir, sc_walk>>
            ELSE StartWalk("empty", sc_log.clean)
       ELSE LET top == sc_stack[Len(sc_stack)]
            IN  \E outcome \in {"ok", "err", "panic"} :
                  CASE outcome = "ok" ->
                         /\ sc_stack' = SubSeq(sc_stack, 1, Len(sc_stack) - 1)
                         /\ sc_dir' = [path |-> top.path, rest |-> sc_vol[top.dir].kids]
                         /\ sc_pc' = "mft_iter"
                         /\ UNCHANGED <<cli_args, tx, inst, sc_walk, sc_entries, sc_log, sc_ret>>
                    [] outcome = "err" ->
                         /\ sc_stack' = SubSeq(sc_stack, 1, Len(sc_stack) - 1)
                         /\ sc_log' = [sc_log EXCEPT !.clean = FALSE]
                         /\ UNCHANGED <<cli_args, tx, inst, sc_pc, sc_dir, sc_walk, sc_entries, sc_ret>>
                    [] outcome = "panic" -> Unwinds
    /\ UNCHANGED <<cli_args, tx, inst, sc_drive, sc_vol, loadVars, s_call, ixVars, svcVars>>

\* scan_ntfs_mft: one turn of the inner loop over the directory's index.
\* The iterator is exhausted, or it yields an item: one that cannot be read
\* or named is passed over ("skip"), a panic of the decoder is not caught,
\* and otherwise the name and the path are tested, the entry is pushed, a
\* directory whose file record is read ("ok", not "no_file") is pushed on
\* the stack, and the scan returns when the cap is reached.
MftNext ==
    /\ sc_pc = "mft_iter"
    /\ IF sc_dir.rest = <<>>
       THEN /\ sc_pc' = "mft_pop"
            /\ sc_dir' = NoDir
            /\ UNCHANGED <<cli_args, tx, inst, sc_stack, sc_walk, sc_entries, sc_log, sc_ret>>
       ELSE LET id == Head(sc_dir.rest)
                n == sc_vol[id]
                entry == FileEntry(sc_dir.path, BS, n.name, 0, 0, n.is_dir, sc_drive)
                full_path == entry.path
                left == [sc_dir EXCEPT !.rest = Tail(@)]
                passed == \/ ~ValidUnicode(n.name)
                          \/ n.name = NameDot
                          \/ MftExcluded(full_path)
            IN  \E outcome \in {"ok", "no_file", "skip", "panic"} :
                  CASE outcome = "panic" -> Unwinds
                    [] outcome = "skip" ->
                         /\ sc_dir' = left
                         /\ sc_log' = [sc_log EXCEPT !.clean = FALSE]
                         /\ UNCHANGED <<cli_args, tx, inst, sc_pc, sc_stack, sc_walk, sc_entries, sc_ret>>
                    [] outcome = "ok" /\ passed ->
                         /\ sc_dir' = left
                         /\ UNCHANGED <<cli_args, tx, inst, sc_pc, sc_stack, sc_walk, sc_entries, sc_log,
                                        sc_ret>>
                    [] outcome = "ok" /\ ~passed ->
                         /\ sc_stack' = IF n.is_dir
                                        THEN Append(sc_stack, [dir |-> id, path |-> full_path])
                                        ELSE sc_stack
                         /\ IF CapReached(Append(sc_entries, entry))
                            THEN /\ ScanReturns("mft", Append(sc_entries, entry))
                                 /\ UNCHANGED <<cli_args, tx, inst, sc_dir, sc_walk>>
                            ELSE /\ sc_entries' = Append(sc_entries, entry)
                                 /\ sc_dir' = left
                                 /\ UNCHANGED <<cli_args, tx, inst, sc_pc, sc_walk, sc_log, sc_ret>>
                    [] outcome = "no_file" ->
                         /\ ~passed /\ n.is_dir
                         /\ UNCHANGED sc_stack
                         /\ IF CapReached(Append(sc_entries, entry))
                            THEN /\ ScanReturns("mft", Append(sc_entries, entry))
                                 /\ UNCHANGED <<cli_args, tx, inst, sc_dir, sc_walk>>
                            ELSE /\ sc_entries' = Append(sc_entries, entry)
                                 /\ sc_dir' = left
                                 /\ sc_log' = [sc_log EXCEPT !.clean = FALSE]
                                 /\ UNCHANGED <<cli_args, tx, inst, sc_pc, sc_walk, sc_ret>>
    /\ UNCHANGED <<cli_args, tx, inst, sc_drive, sc_vol, loadVars, s_call, ixVars, svcVars>>

\* scan_walkdir: one turn of the loop over WalkDir.  The iterator is
\* exhausted and Ok(entries) is returned, or it yields an item: an error
\* item or one whose metadata cannot be read is passed over ("skip"), and
\* otherwise the path and the name are tested, the entry is pushed with
\* the size and time of its metadata, and the loop breaks at the cap.
WalkNext ==
    /\ sc_pc = "walk"
    /\ IF sc_walk = <<>>
       THEN ScanReturns("walk", sc_entries) /\ UNCHANGED <<cli_args, tx, inst, sc_stack, sc_dir, sc_walk>>
       ELSE LET item == Head(sc_walk)
                n == sc_vol[item.node]
                name == WalkName(sc_vol, sc_drive, item)
                entry == FileEntry(item.parent, item.sep, name,
                                   IF n.is_dir THEN 0 ELSE 7, 5, n.is_dir, sc_drive)
            IN  \E outcome \in {"ok", "skip"} :
                  IF outcome = "skip"
                  THEN /\ sc_walk' = Tail(sc_walk)
                       /\ sc_log' = [sc_log EXCEPT !.clean = FALSE]
                       /\ UNCHANGED <<cli_args, tx, inst, sc_pc, sc_stack, sc_dir, sc_entries, sc_ret>>
                  ELSE IF WalkExcluded(entry.path, entry.name)
                  THEN /\ sc_walk' = Tail(sc_walk)
                       /\ UNCHANGED <<cli_args, tx, inst, sc_pc, sc_stack, sc_dir, sc_entries, sc_log, sc_ret>>
                  ELSE IF CapReached(Append(sc_entries, entry))
                  THEN /\ ScanReturns("walk", Append(sc_entries, entry))
                       /\ UNCHANGED <<cli_args, tx, inst, sc_stack, sc_dir, sc_walk>>
                  ELSE /\ sc_entries' = Append(sc_entries, entry)
                       /\ sc_walk' = Tail(sc_walk)
                       /\ UNCHANGED <<cli_args, tx, inst, sc_pc, sc_stack, sc_dir, sc_log, sc_ret>>
    /\ UNCHANGED <<cli_args, tx, inst, sc_drive, sc_vol, loadVars, s_call, ixVars, svcVars>>

NextScan ==
    \/ ScanStart
    \/ MftOpen
    \/ MftPop
    \/ MftNext
    \/ WalkNext

SpecScan == InitScan /\ [][NextScan]_vars

\* the direct read is running or has returned the drive's result
DirectRead == sc_pc \in {"mft_pop", "mft_iter"} \/ sc_ret.by = "mft"

\* scan_drive has ended, by returning or by a panic that left it
ScanEnded == sc_pc \in {"done", "unwound"}

\* C14: the direct read is attempted if and only if the process is
\* elevated; whenever an attempted direct read fails, the fallback walk is
\* run for the same drive and its entries are the drive's result; an
\* unprivileged process runs only the walk.
C14_DirectReadIffElevated ==
    /\ (sc_pc # "start") => ((sc_log.mft # "none") = is_admin)
    /\ (ScanEnded /\ sc_log.mft \notin {"none", "ok"}) =>
          sc_log.walk /\ sc_ret.by = "walk"
    /\ (ScanEnded /\ ~is_admin) => sc_log.walk /\ sc_ret.by = "walk"

\* C15: a panic raised while decoding the volume's structure during a
\* direct read, at volume-header parsing, at root-directory lookup or
\* during directory-index traversal, becomes an error result of the direct
\* read: it never unwinds out of the scan.
C15_PanicNeverLeavesScan == sc_pc # "unwound"

\* C16: under both strategies the entry list of a scan never holds more
\* than local_max_cache entries, and the scan stops adding entries, and
\* returns, as soon as the cap is reached.
C16_EntryCapHolds ==
    /\ Len(sc_entries) <= local_max_cache
    /\ Len(sc_ret.entries) <= local_max_cache
    /\ (Len(sc_entries) = local_max_cache) => sc_pc = "done" /\ sc_ret.entries = sc_entries

\* a direct read returned at the cap with items of the current index not
\* yet read (the head of rest is the item that reached the cap)
C16_Witness ==
    /\ sc_pc = "done" /\ sc_ret.by = "mft"
    /\ Len(sc_ret.entries) = local_max_cache
    /\ Len(sc_dir.rest) > 1

\* a path inside the recycle bin, the volume's internal metadata directory,
\* or the OS system tree other than the shell executable
Noise(path) ==
    \/ ContainsIgnoreCase(path, BS \o NameRecycle)
    \/ ContainsIgnoreCase(path, BS \o NameSvi)
    \/ /\ ContainsIgnoreCase(path, Str(<<"c", ":">>) \o BS \o NameWindows)
       /\ ~ContainsIgnoreCase(path, NameExplorer)

\* C17: no entry produced by the direct read has a path that contains,
\* case-insensitively, the recycle-bin or the volume-internal-metadata
\* directory name, or the OS system tree without the shell executable
\* name; and such a directory is never pushed for expansion.
C17_DirectReadExcludesNoise ==
    DirectRead =>
        /\ \A i \in 1..Len(sc_entries) : ~Noise(sc_entries[i].path)
        /\ \A i \in 1..Len(sc_stack) : ~Noise(sc_stack[i].path)
        /\ ~Noise(sc_dir.path)

\* a direct read of the system volume on C, with no fault, returned the one
\* file outside the recycle bin and the OS system directory
C17_Witness ==
    /\ sc_pc = "done" /\ sc_ret.by = "mft" /\ sc_log.clean
    /\ sc_drive = "C" /\ sc_vol = VolSys
    /\ Len(sc_ret.entries) = 1
    /\ sc_ret.entries[1].name = Str(<<"b">>)

\* C18: when the system drive holds C:\Windows\explorer.exe and the cap is
\* not reached first, the entries a direct read produces contain an entry
\* for it.
C18_ShellExecutableKept ==
    ( /\ sc_pc = "done" /\ sc_ret.by = "mft" /\ sc_log.clean
      /\ sc_drive = "C" /\ sc_vol = VolSys
      /\ Len(sc_ret.entries) < local_max_cache )
        => \E i \in 1..Len(sc_ret.entries) :
              sc_ret.entries[i].path =
                  Str(<<"C", ":">>) \o BS \o NameWindows \o BS \o NameExplorer

\* C19: in the snapshot a scan installs no two entries have the same full
\* path: the entries of one drive's scan have pairwise distinct paths, and
\* each path begins with the letter of its drive, so that the entries of
\* different drives differ too.
C19_PathsUniqueInSnapshot ==
    /\ \A i, j \in 1..Len(sc_entries) :
          i # j => sc_entries[i].path # sc_entries[j].path
    /\ \A i \in 1..Len(sc_entries) :
          /\ Len(sc_entries[i].path) >= 2
          /\ SubSeq(sc_entries[i].path, 1, 2) = Str(<<sc_entries[i].drive, ":">>)
          /\ sc_entries[i].drive = sc_drive

\* the extension is lower-case, holds no dot, and is the end of the name
\* after a dot
SuffixAfterDot(name, ext) ==
    /\ \A k \in 1..Len(ext) : ext[k] # 46 /\ ~(ext[k] >= 65 /\ ext[k] <= 90)
    /\ Len(name) > Len(ext)
    /\ name[Len(name) - Len(ext)] = 46
    /\ \A k \in 1..Len(ext) : ToLowerChar(name[Len(name) - Len(ext) + k]) = ext[k]

InitSwap ==
    /\ memory_index = <<>>
    /\ ready = FALSE
    /\ db_open = TRUE
    /\ is_admin = FALSE
    /\ table \in {EmptyTable, WarmTable}
    /\ load_pc = "idle"
    /\ all_entries = <<>>
    /\ drives_left = <<>>
    /\ loaded_from = "none"
    /\ saved = <<>>
    /\ load_ret = NoReturn
    /\ cache_outcome = "none"
    /\ tx = NoTx
    /\ inst = NoInstances
    /\ s_call = NoCall
    /\ IxIdle
    /\ SvcIdle
    /\ ScanIdle

\* how many entries the iterator chain of search collects before it stops:
\* take(max_results) for the empty query, take(max_results * 5) otherwise
CollectLimit(query, max_results) ==
    IF query = <<>> THEN max_results ELSE CandidateCap(max_results)

\* search: self.memory_index.read().await; the guard is held until return
SearchLock(query, max_results) ==
    /\ s_call.pc = "idle"
    /\ s_call' = [NoCall EXCEPT !.query = query, !.max_results = max_results,
                                !.pc = "iter", !.view = memory_index]
    /\ UNCHANGED <<cli_args, tx, inst, scanVars, loadVars, ixVars, svcVars>>

\* search: the iterator reads the next entry of the index and keeps it when
\* the query is empty or the entry matches
SearchIter ==
    /\ s_call.pc = "iter"
    /\ s_call.pos < Len(memory_index)
    /\ Len(s_call.acc) < CollectLimit(s_call.query, s_call.max_results)
    /\ LET e == memory_index[s_call.pos + 1]
           keep == s_call.query = <<>> \/ Matches(e, ToUpper(s_call.query))
       IN  s_call' = [s_call EXCEPT !.pos = @ + 1,
                                    !.acc = IF keep THEN Append(@, e) ELSE @]
    /\ UNCHANGED <<cli_args, tx, inst, scanVars, loadVars, ixVars, svcVars>>

\* search: the iterator is exhausted or has collected enough; the matches
\* are sorted and truncated, the read guard is dropped, the result returned
SearchReturn ==
    /\ s_call.pc = "iter"
    /\ \/ s_call.pos >= Len(memory_index)
       \/ Len(s_call.acc) >= CollectLimit(s_call.query, s_call.max_results)
    /\ s_call' = [s_call EXCEPT
                    !.results = IF s_call.query = <<>> THEN s_call.acc
                                ELSE Take(SortRanked(s_call.acc, ToUpper(s_call.query)),
                                          s_call.max_results),
                    !.made = TRUE, !.pc = "idle"]
    /\ UNCHANGED <<cli_args, tx, inst, scanVars, loadVars, ixVars, svcVars>>

NextSwap ==
    \/ LoadFromCacheHit
    \/ MarkReadyFromCache
    \/ LoadFromCacheMiss
    \/ ScanDriveCalled
    \/ ScanDrive
    \/ Install
    \/ MarkReady
    \/ SaveToCacheCommit
    \/ SaveToCacheFail
    \/ \E q \in {<<>>, Str(<<"b">>)}, n \in 1..MaxLimit : SearchLock(q, n)
    \/ SearchIter
    \/ SearchReturn

SpecSwap == InitSwap /\ [][NextSwap]_vars

\* the index is the complete snapshot of a load: every drive's scan result,
\* or every decodable entry of the cache
CompleteSnapshot(index) ==
    \/ loaded_from = "scan" /\ drives_left = <<>> /\ index = all_entries
    \/ loaded_from = "cache" /\ index = CacheEntries(table)

\* C26: the load assembles its result without the lock and takes the
\* exclusive lock only for one swap: while a search holds the read lock the
\* index does not change, and the result of a search is the result of
\* search on one index, which is the index as it was before the swap
\* (empty) or the complete new snapshot, never a partially installed one.
C26_SearchSeesOneConsistentIndex ==
    /\ IndexReadLocked => memory_index = s_call.view
    /\ (IndexReadLocked \/ s_call.made) =>
          s_call.view = <<>> \/ CompleteSnapshot(s_call.view)
    /\ s_call.made =>
          s_call.results = Search(s_call.view, s_call.query, s_call.max_results)

\* a search holds the read lock on the empty index while the load has
\* assembled the entries of two drives and waits to install them
C26_Witness ==
    /\ IndexReadLocked /\ s_call.view = <<>>
    /\ load_pc = "scan" /\ drives_left = <<>>
    /\ \E i, j \in 1..Len(all_entries) : all_entries[i].drive # all_entries[j].drive
    /\ ~ENABLED Install

(***************************************************************************)
(* The local fallback of run_cli: one searcher, constructed in the         *)
(* client's process, loaded and then searched by the same task.            *)
(***************************************************************************)
\* client_request has failed and LocalNtfsSearcher::new has run: the index
\* is empty, the database opened or not, the table as earlier runs left it
InitFallback ==
    /\ memory_index = <<>>
    /\ ready = FALSE
    /\ db_open \in BOOLEAN
    /\ is_admin \in BOOLEAN
    /\ table \in {EmptyTable, StaleTable, WarmTable}
    /\ load_pc = "idle"
    /\ all_entries = <<>>
    /\ drives_left = <<>>
    /\ loaded_from = "none"
    /\ saved = <<>>
    /\ load_ret = NoReturn
    /\ cache_outcome = "none"
    /\ tx = NoTx
    /\ inst = NoInstances
    /\ s_call = NoCall
    /\ IxIdle
    /\ SvcIdle
    /\ ScanIdle

\* a fallback that spawns the load and searches without awaiting it
FallbackSearch_NotAwaited(query, max_results) ==
    /\ ~s_call.made
    /\ s_call' = [NoCall EXCEPT !.query = query, !.max_results = max_results,
                                !.results = Search(memory_index, query, max_results),
                                !.view = memory_index, !.made = TRUE]
    /\ UNCHANGED <<cli_args, tx, inst, scanVars, loadVars, ixVars, svcVars>>

\* run_cli: `let _ = searcher.load_all_drives().await;` has returned,
\* whatever it returned, and searcher.search(&args.query, max_results) runs
FallbackSearch(query, max_results) ==
    /\ load_ret # NoReturn
    /\ ~s_call.made
    /\ s_call' = [NoCall EXCEPT !.query = query, !.max_results = max_results,
                                !.results = Search(memory_index, query, max_results),
                                !.view = memory_index, !.made = TRUE]
    /\ UNCHANGED <<cli_args, tx, inst, scanVars, loadVars, ixVars, svcVars>>

NextFallback ==
    \/ LoadFromCacheHit
    \/ MarkReadyFromCache
    \/ LoadFromCacheMiss
    \/ ScanDriveCalled
    \/ ScanDrive
    \/ ScanDrivePanics
    \/ Install
    \/ MarkReady
    \/ SaveToCacheCommit
    \/ SaveToCacheFail
    \/ \E q \in {<<>>, Str(<<"b">>)}, n \in 1..MaxLimit : FallbackSearch(q, n)

SpecFallback == InitFallback /\ [][NextFallback]_vars

\* C30: in the local fallback the query is evaluated only after the load
\* has returned: the index the search read is the one in memory, the load
\* has installed it and marked it ready, and it is the complete snapshot
\* (every decodable entry of the cache, or the result of every drive's
\* scan), never the index of a load that has not started or not finished.
C30_FallbackSearchesAfterLoad ==
    s_call.made =>
        /\ load_pc = "done" /\ load_ret.kind = "ok"
        /\ ready
        /\ s_call.view = memory_index
        /\ s_call.results = Search(memory_index, s_call.query, s_call.max_results)
        /\ load_ret.count = Len(memory_index)
        /\ \/ /\ loaded_from = "cache" /\ cache_outcome = "hit"
              /\ memory_index = CacheEntries(table) /\ memory_index # <<>>
           \/ /\ loaded_from = "scan" /\ drives_left = <<>>
              /\ memory_index = all_entries

\* the fallback found entries in an index that the load scanned from two
\* drives after missing the cache
C30_Witness ==
    /\ s_call.made /\ s_call.results # <<>>
    /\ loaded_from = "scan" /\ cache_outcome # "hit"
    /\ \E i, j \in 1..Len(memory_index) : memory_index[i].drive # memory_index[j].drive

(***************************************************************************)
(* run_cli: a file-name query is routed by its scope, to the catalog (the  *)
(* server, else the local fallback) or to a walk of the scope.             *)
(***************************************************************************)
\* str::to_lowercase
ToLower(s) == [i \in 1..Len(s) |-> ToLowerChar(s[i])]

\* the scopes a caller passes: a catalogued directory, a directory of a
\* removable drive, and a blank string, which names no directory
ScopeC == eAb.path
ScopeE == Str(<<"E", ":", "\\", "b">>)
ScopeBlank == Str(<<" ">>)

\* what WalkDir::new(scope).max_depth(10).follow_links(false) yields once
\* its errors are filtered out: the root first, then what lies under it,
\* each with its name and path as the file system spells them and whether
\* its metadata can be read; nothing for a root that does not exist
WalkItem(parent, name, size, modified, is_dir, meta_ok) ==
    [name |-> name, path |-> IF parent = <<>> THEN name ELSE parent \o BS \o name,
     size |-> size, modified |-> modified, is_dir |-> is_dir, meta_ok |-> meta_ok]

CustomWalk(scope) ==
    IF scope = ScopeC
    THEN <<WalkItem(DriveC, Str(<<"a", "b">>), 0, 5, TRUE, TRUE),
           WalkItem(ScopeC, Str(<<"A", ".", "b">>), 7, 5, FALSE, TRUE)>>
    ELSE IF scope = ScopeE
    THEN <<WalkItem(Str(<<"E", ":">>), Str(<<"b">>), 0, 5, TRUE, FALSE),
           WalkItem(ScopeE, Str(<<"c">>), 7, 5, FALSE, TRUE),
           WalkItem(ScopeE, Str(<<"B", ".">>) \o <<55296>>, 7, 5, FALSE, TRUE),
           WalkItem(ScopeE, Str(<<"a", ".", "B">>), 7, 5, FALSE, TRUE)>>
    ELSE <<>>

\* the FileEntry search_custom_path pushes for a walked item
CustomEntry(w) ==
    [name |-> Lossy(w.name), path |-> Lossy(w.path),
     extension |-> ExtensionOf(w.name), size |-> w.size, modified |-> w.modified,
     is_dir |-> w.is_dir, drive |-> " ", score |-> 0]

\* search_custom_path: the lower-cased name or path contains the query
CustomMatches(w, query_lower) ==
    \/ Contains(ToLower(Lossy(w.name)), query_lower)
    \/ Contains(ToLower(Lossy(w.path)), query_lower)

\* the loop of search_custom_path: stop once max_results are collected,
\* skip an item whose metadata cannot be read, push an item that matches
RECURSIVE CustomPathLoop(_, _, _, _)
CustomPathLoop(walk, query_lower, max_results, results) ==
    IF walk = <<>> \/ Len(results) >= max_results THEN results
    ELSE LET w == Head(walk)
         IN  CustomPathLoop(Tail(walk), query_lower, max_results,
                 IF w.meta_ok /\ CustomMatches(w, query_lower)
                 THEN Append(results, CustomEntry(w))
                 ELSE results)

SearchCustomPath(query, scope, max_results) ==
    CustomPathLoop(CustomWalk(scope), ToLower(query), max_results, <<>>)

\* the arguments of a file-name query (--content not given)
CliArgsSet ==
    {[query |-> Str(<<"b">>), max_results |-> n, search_scope |-> scope] :
        n \in {1}, scope \in {<<>>, ScopeC, ScopeE, ScopeBlank}}

\* the SearchRequest run_cli builds from its arguments
RequestOf(args) ==
    [kind |-> "request", query |-> args.query, max_results |-> args.max_results,
     limit |-> args.max_results, bytes_len |-> RequestBytes(args.query)]

\* the service runs as in InitService; each client process has been started
\* with its arguments and has not yet looked at them
InitCli ==
    /\ memory_index = <<>>
    /\ ready = FALSE
    /\ db_open = TRUE
    /\ is_admin = TRUE
    /\ table = WarmTable
    /\ load_pc = "idle"
    /\ all_entries = <<>>
    /\ drives_left = <<>>
    /\ loaded_from = "none"
    /\ saved = WarmIndex
    /\ load_ret = NoReturn
    /\ cache_outcome = "none"
    /\ tx = NoTx
    /\ inst = NoInstances
    /\ s_call = NoCall
    /\ IxIdle
    /\ accept_pc = "create"
    /\ pending = 0
    /\ h_pc = [c \in Clients |-> "none"]
    /\ h_resp = [c \in Clients |-> NoResponse]
    /\ pipe_req = [c \in Clients |-> NoPayload]
    /\ pipe_resp = [c \in Clients |-> NoResponse]
    /\ c_pc = [c \in Clients |-> "args"]
    /\ c_req = [c \in Clients |-> NoPayload]
    /\ c_fail = [c \in Clients |-> "none"]
    /\ c_result = [c \in Clients |-> NoResult]
    /\ cli_table = WarmTable
    /\ cli_args \in [Clients -> CliArgsSet]
    /\ ScanIdle

\* a run_cli that tries the server whatever the scope
RunCli_TriesServerFirst(c) ==
    /\ c_pc[c] = "args"
    /\ c_pc' = [c_pc EXCEPT ![c] = "idle"]
    /\ UNCHANGED <<cli_args, tx, inst, scanVars, accept_pc, pending, h_pc, h_resp, pipe_req,
                   pipe_resp, c_req, c_fail, c_result, cli_table, loadVars, s_call,
                   ixVars>>

\* run_cli, file-name branch: with an empty search_scope it goes on to
\* client_request; otherwise it returns what search_custom_path finds
RunCli(c) ==
    /\ c_pc[c] = "args"
    /\ IF cli_args[c].search_scope = <<>>
       THEN /\ c_pc' = [c_pc EXCEPT ![c] = "idle"]
            /\ c_result' = c_result
       ELSE /\ c_pc' = [c_pc EXCEPT ![c] = "done"]
            /\ c_result' = [c_result EXCEPT ![c] =
                              [kind |-> "custom",
                               results |-> SearchCustomPath(cli_args[c].query,
                                                            cli_args[c].search_scope,
                                                            cli_args[c].max_results)]]
    /\ UNCHANGED <<cli_args, tx, inst, scanVars, accept_pc, pending, h_pc, h_resp, pipe_req,
                   pipe_resp, c_req, c_fail, cli_table, loadVars, s_call, ixVars>>

NextCli ==
    \/ AcceptCreate
    \/ AcceptCreateFails
    \/ AcceptSpawn
    \/ \E c \in Clients :
         \/ RunCli(c)
         \/ ClientConnect(c, RequestOf(cli_args[c]))
         \/ ClientConnectFails(c, RequestOf(cli_args[c]))
         \/ ClientWrite(c)
         \/ ClientWriteFails(c)
         \/ ClientRead(c)
         \/ ClientReadFails(c)
         \/ ClientFallback(c)
         \/ HandlerRead(c)
         \/ HandlerWrite(c)
         \/ HandlerClose(c)
         \/ HandlerAborted(c)
    \/ LoadFromCacheHit
    \/ MarkReadyFromCache

SpecCli == InitCli /\ [][NextCli]_vars

\* string s begins with string t
StartsWith(s, t) == Len(s) >= Len(t) /\ SubSeq(s, 1, Len(t)) = t

\* C21: a file-name query with an empty scope never walks a custom root:
\* what its caller receives comes from the server or from the in-process
\* index.  A query with a non-empty scope opens no connection, sends no
\* request and never enters the local fallback (which alone reads the
\* in-process index and the persisted table): what its caller receives is
\* what the walk of that one root finds, every entry lying under the root.
C21_ScopeSelectsTheSource ==
    \A c \in Clients :
        IF cli_args[c].search_scope = <<>>
        THEN /\ c_result[c].kind \in {"pending", "remote", "empty", "local"}
             /\ c_pc[c] = "done" => c_result[c].kind # "pending"
        ELSE /\ c_pc[c] \in {"args", "done"}
             /\ c_req[c] = NoPayload /\ c_fail[c] = "none"
             /\ pending # c /\ h_pc[c] = "none" /\ h_resp[c] = NoResponse
             /\ pipe_req[c] = NoPayload /\ pipe_resp[c] = NoResponse
             /\ c_pc[c] = "args" => c_result[c] = NoResult
             /\ c_pc[c] = "done" =>
                   /\ c_result[c].kind = "custom"
                   /\ c_result[c].results =
                         SearchCustomPath(cli_args[c].query, cli_args[c].search_scope,
                                          cli_args[c].max_results)
                   /\ \A i \in 1..Len(c_result[c].results) :
                         /\ StartsWith(c_result[c].results[i].path,
                                       cli_args[c].search_scope)
                         /\ c_result[c].results[i].drive = " "

\* one query with a scope was answered by the walk of its root and another
\* with no scope by the server, from the catalog
C21_Witness ==
    \E c1, c2 \in Clients :
        /\ cli_args[c1].search_scope = ScopeE
        /\ c_pc[c1] = "done" /\ c_result[c1].results # <<>>
        /\ cli_args[c2].search_scope = <<>>
        /\ c_pc[c2] = "done" /\ c_result[c2].kind = "remote"
        /\ c_result[c2].results # <<>>

(***************************************************************************)
(* search called with any limit a usize can hold.                          *)
(***************************************************************************)
\* every value of usize
UsizeValues == 0..(UsizeModulus - 1)

\* a loaded searcher, as in InitSearch, on an empty, a short or a long index
InitWord ==
    /\ memory_index \in {<<>>, WarmIndex, LongIndex}
    /\ ready = TRUE
    /\ db_open = FALSE
    /\ is_admin = FALSE
    /\ table = EmptyTable
    /\ load_pc = "done"
    /\ all_entries = <<>>
    /\ drives_left = <<>>
    /\ loaded_from = "scan"
    /\ saved = <<>>
    /\ load_ret = NoReturn
    /\ cache_outcome = "none"
    /\ tx = NoTx
    /\ inst = NoInstances
    /\ s_call = NoCall
    /\ IxIdle
    /\ SvcIdle
    /\ ScanIdle

\* search in a build with overflow checks: max_results * 5 exceeds
\* usize::MAX and the multiplication panics; the call returns nothing
SearchOverflowPanics(query, max_results) ==
    /\ query # <<>>
    /\ max_results * 5 >= UsizeModulus
    /\ s_call' = [NoCall EXCEPT !.query = query, !.max_results = max_results,
                                !.pc = "panicked"]
    /\ UNCHANGED <<cli_args, tx, inst, scanVars, loadVars, ixVars, svcVars>>

NextWord ==
    \/ \E q \in {<<>>, Str(<<"b">>), Str(<<"z">>)}, n \in UsizeValues : DoSearch(q, n)
    \/ \E q \in {<<>>, Str(<<"b">>), Str(<<"z">>)}, n \in UsizeValues :
          SearchOverflowPanics(q, n)

SpecWord == InitWord /\ [][NextWord]_vars

\* C33: for every limit a usize can hold, the candidate cap limit x 5 is
\* computed without wrap-around: the call returns, and its result for a
\* non-empty query holds at least min(limit, number of matching entries)
\* entries.
C33_CandidateCapNeverWraps ==
    /\ s_call.pc # "panicked"
    /\ (s_call.made /\ s_call.query # <<>>) =>
          Len(s_call.results) >=
              Min(s_call.max_results,
                  Len(FilterMatches(memory_index, ToUpper(s_call.query))))

(***************************************************************************)
(* The client's read of the response: complete, cut by the buffer, or      *)
(* partial.                                                                *)
(***************************************************************************)
\* a file deep under directories with long names in a script whose
\* characters take three bytes each in UTF-8
LongDir ==
    DriveC \o [i \in 1..LongPathUnits |-> IF i % 200 = 1 THEN 92 ELSE 20013]

eLong == FileEntry(LongDir, BS, Str(<<"b">>), 7, 5, FALSE, "C")

\* the indexes the server holds: the warm one, or one led by the long entry
ReplyIndexes == {WarmIndex, <<eLong>> \o WarmIndex}

\* the server has loaded its index and accepted the connection of client
\* 1, whose request is in the pipe; no other client has started
InitReply ==
    /\ memory_index \in ReplyIndexes
    /\ ready = TRUE
    /\ db_open = TRUE
    /\ is_admin = TRUE
    /\ table = InsertAll(EmptyTable, memory_index)
    /\ load_pc = "done"
    /\ all_entries = <<>>
    /\ drives_left = <<>>
    /\ loaded_from = "cache"
    /\ saved = <<>>
    /\ load_ret = OkReturn(Len(memory_index))
    /\ cache_outcome = "hit"
    /\ tx = NoTx
    /\ inst = NoInstances
    /\ s_call = NoCall
    /\ IxIdle
    /\ accept_pc = "create"
    /\ pending = 0
    /\ h_pc = [c \in Clients |-> IF c = 1 THEN "read" ELSE "none"]
    /\ h_resp = [c \in Clients |-> NoResponse]
    /\ \E payload \in ClientRequests \cup {LongRequest} :
          /\ pipe_req = [c \in Clients |-> IF c = 1 THEN payload ELSE NoPayload]
          /\ c_req = [c \in Clients |-> IF c = 1 THEN payload ELSE NoPayload]
    /\ pipe_resp = [c \in Clients |-> NoResponse]
    /\ c_pc = [c \in Clients |-> IF c = 1 THEN "read" ELSE "done"]
    /\ c_fail = [c \in Clients |-> "none"]
    /\ c_result = [c \in Clients |-> NoResult]
    /\ cli_table = WarmTable
    /\ cli_args = [c \in Clients |-> NoArgs]
    /\ ScanIdle

\* client.read returns only the first part of a response that would fit
\* the buffer: what was read is not a complete JSON document and
\* serde_json::from_slice fails
ClientReadPartial(c) ==
    /\ c_pc[c] = "read"
    /\ pipe_resp[c] # NoResponse
    /\ ResponseBytes(pipe_resp[c]) <= ResponseBuffer
    /\ pipe_resp' = [pipe_resp EXCEPT ![c] = NoResponse]
    /\ c_fail' = [c_fail EXCEPT ![c] = "decode"]
    /\ c_pc' = [c_pc EXCEPT ![c] = AfterFailure(c_req[c])]
    /\ UNCHANGED <<cli_args, tx, inst, scanVars, accept_pc, pending, h_pc, h_resp, pipe_req, c_req,
                   c_result, cli_table, loadVars, s_call, ixVars>>

NextReply ==
    \/ AcceptCreate
    \/ AcceptCreateFails
    \/ \E c \in Clients :
         \/ HandlerRead(c)
         \/ HandlerWrite(c)
         \/ HandlerClose(c)
         \/ HandlerAborted(c)
         \/ ClientRead(c)
         \/ ClientReadFails(c)
         \/ ClientReadPartial(c)
         \/ ClientFallback(c)

SpecReply == InitReply /\ [][NextReply]_vars

\* C34: a response longer than the client's 65536-byte buffer, or read
\* only in part, is never returned as a result list: the client holds a
\* remote result only when the whole response fitted the buffer and was
\* read whole, and then its entries are exactly those the server sent; a
\* response that did not decode sends the client to the local fallback,
\* and the answer it ends with is the local one.
C34_TruncatedResponseFallsBack ==
    \A c \in Clients :
        /\ c_result[c].kind \in {"remote", "empty"} =>
              /\ c_fail[c] = "none"
              /\ ResponseBytes(h_resp[c]) <= ResponseBuffer
              /\ c_result[c] = RemoteResult(h_resp[c])
        /\ c_fail[c] = "decode" =>
              /\ c_pc[c] \in {"fallback", "done"}
              /\ c_result[c].kind = IF c_pc[c] = "done" THEN "local" ELSE "pending"
        /\ (c_pc[c] = "read" /\ pipe_resp[c] # NoResponse
               /\ ResponseBytes(pipe_resp[c]) > ResponseBuffer) =>
              ~ENABLED ClientRead(c)

\* the server wrote a response longer than the buffer and the client
\* returned what its local index found
C34_Witness ==
    \E c \in Clients :
        /\ c_fail[c] = "decode" /\ c_pc[c] = "done"
        /\ h_resp[c] # NoResponse /\ h_resp[c].success
        /\ ResponseBytes(h_resp[c]) > ResponseBuffer
        /\ c_result[c].kind = "local" /\ c_result[c].results # <<>>
        /\ c_result[c].results # CliEntries(h_resp[c].results)

\* C35: a well-formed response with success = false makes the client
\* return an empty result set without running the local fallback; the
\* fallback runs, and a local answer is returned, only after the transport
\* or the decoding of the response has failed.
C35_FailureResponseGivesEmptyResult ==
    \A c \in Clients :
        /\ c_result[c].kind = "empty" =>
              /\ c_pc[c] = "done" /\ c_fail[c] = "none"
              /\ ~h_resp[c].success
              /\ c_result[c].results = <<>>
        /\ (c_pc[c] = "fallback" \/ c_result[c].kind = "local") =>
              c_fail[c] \in {"connect", "write", "read", "decode"}
        /\ (c_pc[c] = "done" /\ c_req[c] # NoPayload /\ c_fail[c] = "none") =>
              c_result[c].kind = IF h_resp[c].success THEN "remote" ELSE "empty"

\* the server read the first 4096 bytes of a longer request and answered
\* with success = false; the client returned the empty result set
C35_Witness ==
    \E c \in Clients :
        /\ c_pc[c] = "done" /\ c_fail[c] = "none"
        /\ c_req[c].kind = "request" /\ c_req[c].bytes_len > RequestBuffer
        /\ h_resp[c] # NoResponse /\ h_resp[c].error
        /\ c_result[c] = [kind |-> "empty", results |-> <<>>]

(***************************************************************************)
(* save_to_cache, insert by insert, inside its write transaction, and the  *)
(* load of the process that runs next.                                     *)
(***************************************************************************)
\* load_all_drives has installed a scanned index that is not empty, set
\* ready and is about to call save_to_cache; the cache was missed for one
\* of the reasons of LoadFromCacheMiss
InitSave ==
    /\ memory_index \in DistinctSeqs(AllFiles, MaxIndex) \ {<<>>}
    /\ all_entries = memory_index
    /\ ready = TRUE
    /\ db_open \in BOOLEAN
    /\ is_admin = FALSE
    /\ table \in {EmptyTable, StaleTable, WarmTable}
    /\ cache_outcome \in {"no_db", "read_fault", "no_entry"}
    /\ (cache_outcome = "no_db") = ~db_open
    /\ (cache_outcome = "no_entry") => table # EmptyTable /\ CacheEntries(table) = <<>>
    /\ load_pc = "save"
    /\ drives_left = <<>>
    /\ loaded_from = "scan"
    /\ saved = <<>>
    /\ load_ret = NoReturn
    /\ tx = NoTx
    /\ inst = NoInstances
    /\ s_call = NoCall
    /\ IxIdle
    /\ SvcIdle
    /\ ScanIdle

\* save_to_cache: db.begin_write() and tx.open_table(FILE_TABLE) succeed
SaveBegin ==
    /\ load_pc = "save"
    /\ db_open
    /\ ~StoreFaulty
    /\ tx' = [open |-> TRUE, outcome |-> "none", base |-> table,
              index |-> memory_index, pending |-> table, next |-> 1]
    /\ load_pc' = "saving"
    /\ UNCHANGED <<cli_args, inst, scanVars, memory_index, ready, db_open, is_admin, table,
                   all_entries, drives_left, loaded_from, saved, load_ret,
                   cache_outcome, s_call, ixVars, svcVars>>

\* an insert that writes the entry straight to the persisted table
SaveInsert_WritesThrough ==
    /\ load_pc = "saving"
    /\ tx.next <= Len(memory_index)
    /\ LET entry == memory_index[tx.next]
       IN  /\ tx' = [tx EXCEPT !.pending = TableInsert(@, CacheKey(entry), ToJson(entry)),
                               !.next = @ + 1]
           /\ table' = TableInsert(table, CacheKey(entry), ToJson(entry))
    /\ UNCHANGED <<cli_args, inst, scanVars, memory_index, ready, db_open, is_admin,
                   load_pc, all_entries, drives_left, loaded_from, saved, load_ret,
                   cache_outcome, s_call, ixVars, svcVars>>

\* save_to_cache: serde_json::to_vec(entry) and table.insert(key, value)
\* for the next entry of the index, inside the transaction
SaveInsert ==
    /\ load_pc = "saving"
    /\ tx.next <= Len(memory_index)
    /\ LET entry == memory_index[tx.next]
       IN  tx' = [tx EXCEPT !.pending = TableInsert(@, CacheKey(entry), ToJson(entry)),
                            !.next = @ + 1]
    /\ UNCHANGED <<cli_args, inst, scanVars, memory_index, ready, db_open, is_admin, table,
                   load_pc, all_entries, drives_left, loaded_from, saved, load_ret,
                   cache_outcome, s_call, ixVars, svcVars>>

\* save_to_cache: to_vec or insert fails for the next entry; the ? returns
\* the error, the transaction is dropped without commit, and
\* load_all_drives ignores the error
SaveInsertFails ==
    /\ load_pc = "saving"
    /\ tx.next <= Len(memory_index)
    /\ tx' = [tx EXCEPT !.open = FALSE, !.outcome = "failed"]
    /\ load_ret' = OkReturn(Len(all_entries))
    /\ load_pc' = "done"
    /\ UNCHANGED <<cli_args, inst, scanVars, memory_index, ready, db_open, is_admin, table,
                   all_entries, drives_left, loaded_from, saved, cache_outcome,
                   s_call, ixVars, svcVars>>

\* save_to_cache: every entry is inserted and tx.commit() succeeds
SaveCommit ==
    /\ load_pc = "saving"
    /\ tx.next > Len(memory_index)
    /\ table' = tx.pending
    /\ saved' = memory_index
    /\ tx' = [tx EXCEPT !.open = FALSE, !.outcome = "committed"]
    /\ load_ret' = OkReturn(Len(all_entries))
    /\ load_pc' = "done"
    /\ UNCHANGED <<cli_args, inst, scanVars, memory_index, ready, db_open, is_admin,
                   all_entries, drives_left, loaded_from, cache_outcome, s_call,
                   ixVars, svcVars>>

\* save_to_cache: tx.commit() fails
SaveCommitFails ==
    /\ load_pc = "saving"
    /\ tx.next > Len(memory_index)
    /\ tx' = [tx EXCEPT !.open = FALSE, !.outcome = "failed"]
    /\ load_ret' = OkReturn(Len(all_entries))
    /\ load_pc' = "done"
    /\ UNCHANGED <<cli_args, inst, scanVars, memory_index, ready, db_open, is_admin, table,
                   all_entries, drives_left, loaded_from, saved, cache_outcome,
                   s_call, ixVars, svcVars>>

\* the process ends while the transaction is open: nothing was committed
SaveKilled ==
    /\ load_pc = "saving"
    /\ tx' = [tx EXCEPT !.open = FALSE, !.outcome = "killed"]
    /\ load_pc' = "killed"
    /\ UNCHANGED <<cli_args, inst, scanVars, memory_index, ready, db_open, is_admin, table,
                   all_entries, drives_left, loaded_from, saved, load_ret,
                   cache_outcome, s_call, ixVars, svcVars>>

\* the next process constructs its searcher once this one is finished
RestartAfterSave ==
    /\ load_pc \in {"done", "killed"}
    /\ Restart

NextSave ==
    \/ SaveBegin
    \/ SaveToCacheFail
    \/ SaveInsert
    \/ SaveInsertFails
    \/ SaveCommit
    \/ SaveCommitFails
    \/ SaveKilled
    \/ RestartAfterSave
    \/ LoadFromCacheHit
    \/ MarkReadyFromCache

SpecSave == InitSave /\ [][NextSave]_vars

\* C36: persisting is all-or-nothing: while the write transaction is open,
\* and after it failed at an insert or at the commit or was cut short, the
\* persisted table is exactly the table of before the call; after a commit
\* it holds every entry of the index; and a later load installs the
\* decodable entries of one of these two tables, never of a partly
\* written one.
C36_SaveIsAllOrNothing ==
    /\ tx.open => table = tx.base
    /\ tx.outcome \in {"failed", "killed"} => table = tx.base
    /\ tx.outcome = "committed" => table = InsertAll(tx.base, tx.index)
    /\ (tx.outcome # "none" /\ loaded_from = "cache") =>
          memory_index = CacheEntries(IF tx.outcome = "committed"
                                      THEN InsertAll(tx.base, tx.index)
                                      ELSE tx.base)

\* an insert failed after others had been made inside the transaction;
\* the table still holds only the old value, and the next process starts
C36_Witness ==
    /\ tx.outcome = "failed" /\ tx.next > 1 /\ tx.next <= Len(tx.index)
    /\ tx.pending # tx.base
    /\ tx.base = StaleTable /\ table = StaleTable
    /\ load_pc = "idle"

(***************************************************************************)
(* A persisted table only some of whose values decode.                     *)
(***************************************************************************)
\* the keys of a table whose value decodes as a FileEntry
DecodableKeys(t) == {k \in DOMAIN t : Decodable(t[k])}

\* C37: a persisted table in which only some values decode is still the
\* authoritative cache: when it is read without fault, load_from_cache
\* installs exactly the values that decode, one entry per decodable value
\* and nothing for the others, and the load then marks ready and returns
\* their count without enumerating or scanning a drive and without error
\* (unless the process ends first).
C37_PartlyDecodableCacheIsAccepted ==
    [][/\ (/\ load_pc = "idle" /\ load_pc' # "idle" /\ db_open
            /\ DecodableKeys(table) # {}
            /\ DecodableKeys(table) # DOMAIN table
            /\ cache_outcome' # "read_fault")
           => /\ load_pc' = "cache_hit"
              /\ loaded_from' = "cache"
              /\ {memory_index'[i] : i \in 1..Len(memory_index')}
                    = {FromJson(table[k]) : k \in DecodableKeys(table)}
              /\ Len(memory_index') = Cardinality(DecodableKeys(table))
              /\ UNCHANGED <<table, all_entries, drives_left>>
       /\ load_pc = "cache_hit"
           => /\ load_pc' \in {"cache_hit", "done", "idle"}
              /\ load_pc' = "done"
                    => /\ ready'
                       /\ load_ret' = OkReturn(Len(memory_index))
                       /\ UNCHANGED <<memory_index, table, all_entries, drives_left>>
      ]_vars

\* a load that returned from a table with one undecodable value and two
\* decodable ones, with exactly the two installed
C37_Witness ==
    /\ load_pc = "done" /\ loaded_from = "cache" /\ ready
    /\ Cardinality(DOMAIN table) = 3
    /\ Cardinality(DecodableKeys(table)) = 2
    /\ Len(memory_index) = 2
    /\ load_ret = OkReturn(2)

(***************************************************************************)
(* The order of the index after persist and reload.                        *)
(***************************************************************************)
\* the orders in which a scan can discover the entries of an index
Reorderings(index) ==
    {p \in [1..Len(index) -> Range(index)] : Range(p) = Range(index)}

\* C38: after a committed save and a reload by the next process, the
\* in-memory index holds the persisted entries in strictly ascending byte
\* order of their paths, whatever the order in which the scan had found
\* them, and search("", N) on it returns the N entries of smallest path.
C38_ReloadedIndexIsInPathOrder ==
    (tx.outcome = "committed" /\ loaded_from = "cache") =>
        /\ \A i, j \in 1..Len(memory_index) :
              i < j => BytesLess(memory_index[i].path, memory_index[j].path)
        /\ Range(memory_index) = Range(tx.index)
        /\ \A p \in Reorderings(tx.index) :
              CacheEntries(InsertAll(tx.base, p)) = memory_index
        /\ \A n \in 0..MaxLimit :
              LET r == Search(memory_index, <<>>, n)
              IN  /\ Len(r) = (IF n < Len(memory_index) THEN n ELSE Len(memory_index))
                  /\ Range(r) \subseteq Range(tx.index)
                  /\ \A a \in Range(r), b \in Range(tx.index) \ Range(r) :
                        BytesLess(a.path, b.path)

\* a reload whose order is not the order of the scan that was saved, and
\* on which search("", 1) returns another entry than on the scanned index
C38_Witness ==
    /\ tx.outcome = "committed" /\ loaded_from = "cache" /\ load_pc = "done"
    /\ Len(tx.index) >= 2
    /\ memory_index # tx.index
    /\ Search(memory_index, <<>>, 1) # Search(tx.index, <<>>, 1)

(***************************************************************************)
(* The single-instance check of the desktop process (main).                *)
(***************************************************************************)
\* the named mutex exists while some process holds a handle to it
MutexExists == inst.handles # {}

\* the processes that are past the single-instance check and alive
PastCheck == {p \in Instances : inst.pc[p] \in {"checked", "tray", "running"}}

\* the processes are started, none has run a statement of main yet
InitInstance ==
    /\ inst = [pc |-> [p \in Instances |-> "start"], handles |-> {}]
    /\ memory_index = <<>>
    /\ ready = FALSE
    /\ db_open = FALSE
    /\ is_admin = FALSE
    /\ table = EmptyTable
    /\ load_pc = "idle"
    /\ all_entries = <<>>
    /\ drives_left = <<>>
    /\ loaded_from = "none"
    /\ saved = <<>>
    /\ load_ret = NoReturn
    /\ cache_outcome = "none"
    /\ tx = NoTx
    /\ s_call = NoCall
    /\ IxIdle
    /\ SvcIdle
    /\ ScanIdle

instOther ==
    <<cli_args, tx, scanVars, memory_index, ready, db_open, is_admin, table, load_pc,
      all_entries, drives_left, loaded_from, saved, load_ret, cache_outcome,
      s_call, ixVars, svcVars>>

\* main: OpenMutexW returns Ok, the mutex exists; the process holds the
\* handle it opened until it has returned from main
OpenMutexFound(p) ==
    /\ inst.pc[p] = "start"
    /\ MutexExists
    /\ inst' = [pc |-> [inst.pc EXCEPT ![p] = "found"],
                handles |-> inst.handles \cup {p}]
    /\ UNCHANGED instOther

\* main: OpenMutexW returns Err, there is no mutex of that name
OpenMutexMissing(p) ==
    /\ inst.pc[p] = "start"
    /\ ~MutexExists
    /\ inst' = [inst EXCEPT !.pc[p] = "create"]
    /\ UNCHANGED instOther

\* main: CreateMutexW creates the mutex, or opens the one that exists by
\* now (ERROR_ALREADY_EXISTS is not looked at); main goes on with the handle
CreateMutex(p) ==
    /\ inst.pc[p] = "create"
    /\ inst' = [pc |-> [inst.pc EXCEPT ![p] = "checked"],
                handles |-> inst.handles \cup {p}]
    /\ UNCHANGED instOther

\* main: CreateMutexW fails; .ok() makes the handle None and main goes on
CreateMutexFails(p) ==
    /\ inst.pc[p] = "create"
    /\ inst' = [inst EXCEPT !.pc[p] = "checked"]
    /\ UNCHANGED instOther

\* main: DPI awareness, logging, icon and tray menu
InstanceSetup(p) ==
    /\ inst.pc[p] = "checked"
    /\ inst' = [inst EXCEPT !.pc[p] = "tray"]
    /\ UNCHANGED instOther

\* main: the tray icon is built, the listeners start and the window runs
InstanceRuns(p) ==
    /\ inst.pc[p] = "tray"
    /\ inst' = [inst EXCEPT !.pc[p] = "running"]
    /\ UNCHANGED instOther

\* main returns: Ok(()) after OpenMutexW found the mutex, the ? of the tray
\* icon build, or the end of run_native; its handle is closed with the
\* process
InstanceExits(p) ==
    /\ inst.pc[p] \in {"found", "tray", "running"}
    /\ inst' = [pc |-> [inst.pc EXCEPT ![p] = "exited"],
                handles |-> inst.handles \ {p}]
    /\ UNCHANGED instOther

\* the program is started again
InstanceStarts(p) ==
    /\ inst.pc[p] = "exited"
    /\ inst' = [inst EXCEPT !.pc[p] = "start"]
    /\ UNCHANGED instOther

NextInstance ==
    \E p \in Instances :
        \/ OpenMutexFound(p)
        \/ OpenMutexMissing(p)
        \/ CreateMutex(p)
        \/ CreateMutexFails(p)
        \/ InstanceSetup(p)
        \/ InstanceRuns(p)
        \/ InstanceExits(p)
        \/ InstanceStarts(p)

SpecInstance == InitInstance /\ [][NextInstance]_vars

\* C39: the single-instance check admits at most one running instance: in
\* every interleaving of processes started at the same time, at most one
\* of them is past the check.
C39_AtMostOneInstance == Cardinality(PastCheck) <= 1

(***************************************************************************)
(* The direct read on a volume whose directory indexes form a cycle.       *)
(***************************************************************************)
\* a volume with a directory whose index lists the directory itself
VolLoop ==
    0 :> Node(<<>>, TRUE, <<1, 3>>) @@
    1 :> Node(Str(<<"a", "b">>), TRUE, <<1, 2>>) @@
    2 :> Node(Str(<<"b">>), FALSE, <<>>) @@
    3 :> Node(Str(<<"b">>), FALSE, <<>>)

\* a volume with two directories each listed in the index of the other
VolRing ==
    0 :> Node(<<>>, TRUE, <<1>>) @@
    1 :> Node(Str(<<"a", "b">>), TRUE, <<2>>) @@
    2 :> Node(Str(<<"b">>), TRUE, <<1, 3>>) @@
    3 :> Node(Str(<<"A", ".", "b">>), FALSE, <<>>)

\* scan_ntfs_mft has opened the volume and holds the root on its stack
InitCycle ==
    /\ memory_index = <<>>
    /\ ready = FALSE
    /\ db_open = FALSE
    /\ is_admin = TRUE
    /\ table = EmptyTable
    /\ load_pc = "scan"
    /\ all_entries = <<>>
    /\ drives_left = <<>>
    /\ loaded_from = "none"
    /\ saved = <<>>
    /\ load_ret = NoReturn
    /\ cache_outcome = "no_db"
    /\ tx = NoTx
    /\ inst = NoInstances
    /\ s_call = NoCall
    /\ IxIdle
    /\ SvcIdle
    /\ sc_drive \in {"C", "D"}
    /\ sc_vol \in {VolLoop, VolRing}
    /\ sc_pc = "mft_pop"
    /\ sc_stack = <<[dir |-> 0, path |-> MftRoot(sc_drive)]>>
    /\ sc_dir = NoDir
    /\ sc_walk = <<>>
    /\ sc_entries = <<>>
    /\ sc_log = [NoLog EXCEPT !.mft = "tried"]
    /\ sc_ret = NoScanReturn

\* the while-let loop of scan_ntfs_mft has ended: by a return at the cap,
\* by a panic, or with the stack empty
MftLoopEnded == sc_pc \in {"done", "unwound"} \/ (sc_pc = "mft_pop" /\ sc_stack = <<>>)

\* the steps of the traversal; the walk that scan_drive goes on to after
\* an empty direct read is not part of it
NextCycle ==
    \/ (sc_stack # <<>> \/ sc_entries # <<>>) /\ MftPop
    \/ MftNext

SpecCycle == InitCycle /\ [][NextCycle]_vars

\* the loop is sequential code: it keeps taking its next step
SpecCycleFair == SpecCycle /\ WF_vars(NextCycle)

\* C40: the explicit-stack traversal of the direct read terminates on a
\* directory graph with cycles: every push onto the work stack comes with
\* the production of one entry, the entries never exceed the cap, so the
\* stack never holds more directories than entries produced (the root
\* aside), and the loop eventually ends.
C40_TraversalTerminates ==
    /\ [][Len(sc_stack') > Len(sc_stack) =>
             /\ Len(sc_stack') = Len(sc_stack) + 1
             /\ Len(sc_entries') = Len(sc_entries) + 1]_vars
    /\ [](/\ Len(sc_entries) <= local_max_cache
          /\ Len(sc_stack) <= Len(sc_entries) + 1)
    /\ <>MftLoopEnded

\* a read that returned at the cap inside the cycle: the directory that
\* lists itself was recorded under its own path, and is still on the stack
C40_Witness ==
    /\ sc_pc = "done" /\ sc_ret.by = "mft" /\ sc_vol = VolLoop
    /\ Len(sc_ret.entries) = local_max_cache
    /\ sc_stack # <<>>
    /\ \E i, j \in 1..Len(sc_ret.entries) :
          /\ i < j
          /\ sc_ret.entries[i].is_dir /\ sc_ret.entries[j].is_dir
          /\ sc_ret.entries[j].path
                = sc_ret.entries[i].path \o BS \o sc_ret.entries[i].name

====
